---- MODULE Spec2Model ----
(***************************************************************************)
(* Transport core of Hyper-connect (src-tauri/src/network, crypto):        *)
(*   - TcpClient: connection pool, dial, client handshake, send with one   *)
(*     retry (network/client.rs) on top of HandshakeManager                *)
(*     (crypto/handshake.rs);                                              *)
(*   - TcpServer: per-connection state machine (network/server.rs);        *)
(*   - FileTransferService: admission and transfer tasks                   *)
(*     (network/file_transfer.rs).                                         *)
(* Every await of the Rust code is a step boundary of the model: between   *)
(* two awaits a task runs without interleaving (cooperative scheduling).   *)
(***************************************************************************)
EXTENDS Integers, Sequences, FiniteSets, TLC

\* ---------------------------------------------------------------- bounds
NTasks == 2          \* concurrent callers of the TcpClient
NDevices == 1        \* peer device ids known to the client
MaxConns == 2        \* TCP connects the client performs in one run
MaxCalls == 2        \* client calls issued in one run
NSenders == 1        \* tasks that call send_frame / send_text_message

Tasks == 1..NTasks
Devices == 1..NDevices
ConnIds == 1..MaxConns
Senders == 1..NSenders

\* ------------------------------------------------------- protocol.rs
MessageType ==
    {"Hello", "TextMessage", "FileRequest", "FileData", "FileAck",
     "FileComplete", "FileCancel", "FileReject", "Heartbeat", "Error",
     "HelloSecure", "HelloResponse", "EncryptedMessage", "FileStreamInit"}

\* Frame::new: the type and, for an ENCRYPTED_MESSAGE, the session whose
\* message_key encrypted the payload (0 for a payload that is not encrypted).
Frame(ty, k) == [type |-> ty, key |-> k]

VARIABLES
    \* ---- TcpClient
    connections,   \* TcpClient.connections: device_id -> connection (0: no entry)
    conns,         \* the Connection objects created so far, by connection id
    nConns,        \* number of TcpStream::connect calls that succeeded
    pending_keypairs, \* HandshakeManager.pending_keypairs: peer -> keypair (0: none)
    sessions,      \* HandshakeManager.sessions: peer -> session (0: none)
    \* ---- one caller of the client (an async task), per task
    pc,            \* position of the task: the await it is stopped at
    op,            \* the TcpClient method the task called
    dev,           \* device_id argument
    phase,         \* which get_connection call of the method is running
    conn,          \* local `connection` / `conn` of the running call
    frame,         \* local `frame` of send_frame
    tries,         \* outcomes of the try_send_frame calls of this send_frame
    nEvicts,       \* close_connection calls made by this send_frame
    nHs,           \* perform_handshake calls made during this method call
    stale,         \* connection the call found pooled with a closed socket (0: none)
    disturbed,     \* during this call a connect failed, a socket was closed
                   \* or another task used the client
    result,        \* what the method returned
    calls,         \* calls issued so far
    evicted,       \* some close_connection removed a pool entry in this run
    \* ---- TcpServer
    server,        \* the handler task of one accepted connection
    \* ---- FileTransferService
    transfers,     \* FileTransferService.transfers: id -> status ("absent": no entry)
    active_transfers, \* FileTransferService.active_transfers
    tcp_client,    \* FileTransferService.tcp_client is Some
    starting,      \* start_transfer calls between their limit check and the table
    stops,         \* pause_transfer and cancel_transfer calls made so far
    task,          \* the spawned transfer task of each transfer
    file_path,     \* FileTransfer.file_path of each entry: None, the source
                   \* file, or the destination under transfer_dir
    transferred,   \* FileTransfer.transferred of each entry
    disk,          \* content of the file at file_path (NoFile: no file)
    was_cancelled, \* transfers whose status has been Cancelled at some time
    ret,           \* the last receiver-side call and what it returned
    rc,            \* the receive_file_chunk call in progress
    sender,        \* perform_transfer of the first transfer, step by step
    table_lock,    \* the call that holds the `transfers` mutex across an await
    hc,            \* the handle_complete call in progress
    \* ---- threads that call the HandshakeManager directly
    hpc,           \* position of the thread in its call
    hop,           \* the HandshakeManager method it called
    harg,          \* peer_device_id (response.device_id) argument
    hkey,          \* local `keypair` of complete_handshake / finalize_handshake
    hres,          \* what the method returned
    pending_lock,  \* holder of the pending_keypairs mutex across steps (0: free)
    hcalls,        \* HandshakeManager calls issued so far
    \* ---- two devices, each with its own HandshakeManager (crypto/)
    hsk,           \* alice_manager and bob_manager and the handshake in flight
    msg,           \* the encrypted message in flight and what became of it
    strm,          \* the encrypted file stream in flight
    \* ---- one byte stream between Frame::encode and Frame::decode
    codec          \* the bytes in the stream and what decode made of them

clientVars == <<connections, conns, nConns, pending_keypairs, sessions,
                pc, op, dev, phase, conn, frame, tries, nEvicts, nHs,
                stale, disturbed, result, calls, evicted>>

serverVars == <<server>>

xferVars == <<file_path, transferred, disk, was_cancelled, ret, rc, sender>>

lockVars == <<table_lock, hc>>

engineVars == <<transfers, active_transfers, tcp_client, starting, stops, task,
                xferVars, lockVars>>

hmVars == <<hpc, hop, harg, hkey, hres, pending_lock, hcalls>>

cryptoVars == <<hsk, msg, strm>>

codecVars == <<codec>>

vars == <<clientVars, serverVars, engineVars, hmVars, cryptoVars, codecVars>>

\* what the operations of one component leave alone
notClient == <<serverVars, engineVars, hmVars, cryptoVars, codecVars>>
notServer == <<clientVars, engineVars, hmVars, cryptoVars, codecVars>>
notEngine == <<clientVars, serverVars, hmVars, cryptoVars, codecVars>>
notCrypto == <<clientVars, serverVars, engineVars, hmVars, codecVars>>
notCodec == <<clientVars, serverVars, engineVars, hmVars, cryptoVars>>

\* the TcpClient state outside its HandshakeManager
poolVars == <<connections, conns, nConns, pc, op, dev, phase, conn, frame,
              tries, nEvicts, nHs, stale, disturbed, result, calls, evicted>>

notManager == <<poolVars, serverVars, engineVars, cryptoVars, codecVars>>

\* Connection::new: no session, nothing written yet.  `hs` records how
\* perform_handshake ended on this connection, `helloResp` the number of
\* HELLO_RESPONSE frames the client has read from it.
NoConn == [device_id |-> 0, open |-> FALSE, session |-> 0, wire |-> <<>>,
           hs |-> "none", helloResp |-> 0]

NewConnection(d) == [device_id |-> d, open |-> TRUE, session |-> 0,
                     wire |-> <<>>, hs |-> "none", helloResp |-> 0]

NoFrame == Frame("Error", 0)

\* frame types of the direct frame builders (send_file_request, ...)
BuilderTypes == {"FileRequest", "FileData"}

Active(t) == pc[t] \notin {"idle", "done"}

InitClient ==
    /\ connections = [d \in Devices |-> 0]
    /\ conns = [c \in ConnIds |-> NoConn]
    /\ nConns = 0
    /\ pending_keypairs = [d \in Devices |-> 0]
    /\ sessions = [d \in Devices |-> 0]
    /\ pc = [t \in Tasks |-> "idle"]
    /\ op = [t \in Tasks |-> "get_connection"]
    /\ dev = [t \in Tasks |-> 1]
    /\ phase = [t \in Tasks |-> "get"]
    /\ conn = [t \in Tasks |-> 0]
    /\ frame = [t \in Tasks |-> NoFrame]
    /\ tries = [t \in Tasks |-> <<>>]
    /\ nEvicts = [t \in Tasks |-> 0]
    /\ nHs = [t \in Tasks |-> 0]
    /\ stale = [t \in Tasks |-> 0]
    /\ disturbed = [t \in Tasks |-> FALSE]
    /\ result = [t \in Tasks |-> "none"]
    /\ calls = 0
    /\ evicted = FALSE

\* ------------------------------------------------ client.rs: the callers
\* A task calls get_connection, send_frame (through one of the frame
\* builders) or send_text_message.
Call(t, o, d, ty) ==
    /\ pc[t] \in {"idle", "done"}
    /\ UNCHANGED notClient
    /\ calls < MaxCalls
    /\ calls' = calls + 1
    /\ op' = [op EXCEPT ![t] = o]
    /\ dev' = [dev EXCEPT ![t] = d]
    /\ pc' = [pc EXCEPT ![t] = "gc_check"]
    /\ phase' = [phase EXCEPT ![t] =
                   CASE o = "get_connection" -> "get"
                     [] o = "send_text_message" -> "st"
                     [] OTHER -> "try1"]
    /\ frame' = [frame EXCEPT ![t] =
                   IF o = "send_frame" THEN Frame(ty, 0) ELSE NoFrame]
    /\ o # "send_frame" => ty = "FileRequest"
    /\ conn' = [conn EXCEPT ![t] = 0]
    /\ tries' = [tries EXCEPT ![t] = <<>>]
    /\ nEvicts' = [nEvicts EXCEPT ![t] = 0]
    /\ nHs' = [nHs EXCEPT ![t] = 0]
    /\ stale' = [stale EXCEPT ![t] = 0]
    /\ result' = [result EXCEPT ![t] = "none"]
    /\ disturbed' = [x \in Tasks |->
                       IF x = t THEN \E y \in Tasks \ {t} : Active(y)
                       ELSE disturbed[x] \/ Active(x)]
    /\ UNCHANGED <<connections, conns, nConns, pending_keypairs, sessions,
                   evicted>>

\* get_connection returned Ok(c) to the call that is running in task t
GetOk(t, c) ==
    /\ conn' = [conn EXCEPT ![t] = c]
    /\ pc' = [pc EXCEPT ![t] =
                CASE phase[t] = "get" -> "done"
                  [] phase[t] = "st" -> "st_has"
                  [] phase[t] = "se" -> "se_session"
                  [] OTHER -> "sf_write"]
    /\ result' = [result EXCEPT ![t] = IF phase[t] = "get" THEN "ok" ELSE @]
    /\ UNCHANGED <<tries>>

\* get_connection returned Err: `?` propagates it, except in the first
\* try_send_frame of send_frame, whose error starts the retry
GetErr(t) ==
    /\ conn' = [conn EXCEPT ![t] = 0]
    /\ pc' = [pc EXCEPT ![t] = IF phase[t] = "try1" THEN "sf_evict" ELSE "done"]
    /\ result' = [result EXCEPT ![t] = IF phase[t] = "try1" THEN @ ELSE "ConnectFailed"]
    /\ tries' = [tries EXCEPT ![t] =
                   IF phase[t] \in {"try1", "try2"} THEN Append(@, "no_conn") ELSE @]

\* get_connection, lines 169-175: look the device up under the read lock
GcCheck(t) ==
    /\ pc[t] = "gc_check"
    /\ UNCHANGED notClient
    /\ IF connections[dev[t]] # 0
       THEN /\ GetOk(t, connections[dev[t]])
            /\ stale' = [stale EXCEPT ![t] =
                           IF @ = 0 /\ ~conns[connections[dev[t]]].open
                           THEN connections[dev[t]] ELSE @]
       ELSE /\ pc' = [pc EXCEPT ![t] = "gc_dial"]
            /\ UNCHANGED <<conn, result, tries, stale>>
    /\ UNCHANGED <<connections, conns, nConns, pending_keypairs, sessions,
                   op, dev, phase, frame, nEvicts, nHs, disturbed,
                   calls, evicted>>

\* get_connection, lines 189-203: TcpStream::connect under the 5 s timeout,
\* then Connection::new
GcDial(t, ok) ==
    /\ pc[t] = "gc_dial"
    /\ UNCHANGED notClient
    /\ IF ok
       THEN /\ nConns < MaxConns
            /\ nConns' = nConns + 1
            /\ conns' = [conns EXCEPT ![nConns + 1] = NewConnection(dev[t])]
            /\ conn' = [conn EXCEPT ![t] = nConns + 1]
            /\ pc' = [pc EXCEPT ![t] = "hs_send"]
            /\ UNCHANGED <<result, tries, disturbed>>
       ELSE /\ GetErr(t)
            /\ disturbed' = [disturbed EXCEPT ![t] = TRUE]
            /\ UNCHANGED <<nConns, conns>>
    /\ UNCHANGED <<connections, pending_keypairs, sessions, op, dev, phase,
                   frame, nEvicts, nHs, stale, calls, evicted>>

\* HandshakeManager::initiate_handshake: the fresh keypair (named after the
\* connection it was generated for) replaces whatever is pending for the peer
initiate_handshake(peer, kp) ==
    pending_keypairs' = [pending_keypairs EXCEPT ![peer] = kp]

\* perform_handshake, lines 281-298: initiate_handshake, then write
\* HELLO_SECURE; a failed write ends the handshake with an error
HsSend(t) ==
    /\ pc[t] = "hs_send"
    /\ UNCHANGED notClient
    /\ initiate_handshake(dev[t], conn[t])
    /\ nHs' = [nHs EXCEPT ![t] = @ + 1]
    /\ IF conns[conn[t]].open
       THEN /\ conns' = [conns EXCEPT ![conn[t]].wire = Append(@, Frame("HelloSecure", 0)),
                                      ![conn[t]].hs = "sent"]
            /\ pc' = [pc EXCEPT ![t] = "hs_read"]
       ELSE /\ conns' = [conns EXCEPT ![conn[t]].hs = "io_failed"]
            /\ pc' = [pc EXCEPT ![t] = "gc_insert"]
    /\ UNCHANGED <<connections, nConns, sessions, op, dev, phase, conn,
                   frame, tries, nEvicts, stale, disturbed, result,
                   calls, evicted>>

\* a device id that no task dials
UnknownDevice == 0

\* what the peer answers to HELLO_SECURE
Responses ==
    [type : MessageType \ {"HelloResponse"}, json : {TRUE}, accepted : {TRUE},
     device_id : {1}]
    \cup [type : {"HelloResponse"}, json : {FALSE}, accepted : {TRUE},
          device_id : {1}]
    \cup [type : {"HelloResponse"}, json : {TRUE}, accepted : BOOLEAN,
          device_id : Devices \cup {UnknownDevice}]

\* perform_handshake, lines 300-326: read one frame; anything but an accepted,
\* well-formed HELLO_RESPONSE is an error.  complete_handshake takes the
\* keypair pending under response.device_id.
HsRead(t, r) ==
    /\ pc[t] = "hs_read"
    /\ UNCHANGED notClient
    /\ pc' = [pc EXCEPT ![t] = "gc_insert"]
    /\ LET c == conn[t] IN
       IF ~conns[c].open
       THEN /\ conns' = [conns EXCEPT ![c].hs = "io_failed"]
            /\ UNCHANGED <<pending_keypairs, sessions>>
       ELSE IF r.type # "HelloResponse"
       THEN /\ conns' = [conns EXCEPT ![c].hs = "unexpected_type"]
            /\ UNCHANGED <<pending_keypairs, sessions>>
       ELSE IF ~r.json
       THEN /\ conns' = [conns EXCEPT ![c].hs = "rejected",
                                      ![c].helloResp = @ + 1]
            /\ UNCHANGED <<pending_keypairs, sessions>>
       ELSE IF ~r.accepted
       THEN /\ conns' = [conns EXCEPT ![c].hs = "rejected",
                                      ![c].helloResp = @ + 1]
            /\ UNCHANGED <<pending_keypairs, sessions>>
       ELSE IF r.device_id \notin Devices \/ pending_keypairs[r.device_id] = 0
       THEN /\ conns' = [conns EXCEPT ![c].hs = "rejected",
                                      ![c].helloResp = @ + 1]
            /\ UNCHANGED <<pending_keypairs, sessions>>
       ELSE /\ conns' = [conns EXCEPT ![c].hs = "ok",
                                      ![c].helloResp = @ + 1,
                                      ![c].session = pending_keypairs[r.device_id]]
            /\ pending_keypairs' = [pending_keypairs EXCEPT ![r.device_id] = 0]
            /\ sessions' = [sessions EXCEPT ![r.device_id] =
                              pending_keypairs[r.device_id]]
    /\ UNCHANGED <<connections, nConns, op, dev, phase, conn, frame,
                   tries, nEvicts, nHs, stale, disturbed, result, calls,
                   evicted>>

\* get_connection, lines 220-228: the connection goes into the pool whether
\* or not the handshake succeeded (plaintext fallback), replacing any entry
GcInsert(t) ==
    /\ pc[t] = "gc_insert"
    /\ UNCHANGED notClient
    /\ connections' = [connections EXCEPT ![dev[t]] = conn[t]]
    /\ GetOk(t, conn[t])
    /\ UNCHANGED <<conns, nConns, pending_keypairs, sessions, op, dev, phase,
                   frame, nEvicts, nHs, stale, disturbed, calls,
                   evicted>>

\* send_text_message, lines 338-355
StHas(t, utf8) ==
    /\ pc[t] = "st_has"
    /\ UNCHANGED notClient
    /\ IF conns[conn[t]].session # 0
       THEN IF utf8
            THEN /\ phase' = [phase EXCEPT ![t] = "se"]
                 /\ pc' = [pc EXCEPT ![t] = "gc_check"]
                 /\ UNCHANGED <<frame, result>>
            ELSE /\ pc' = [pc EXCEPT ![t] = "done"]
                 /\ result' = [result EXCEPT ![t] = "InvalidUtf8"]
                 /\ UNCHANGED <<frame, phase>>
       ELSE /\ frame' = [frame EXCEPT ![t] = Frame("TextMessage", 0)]
            /\ phase' = [phase EXCEPT ![t] = "try1"]
            /\ pc' = [pc EXCEPT ![t] = "gc_check"]
            /\ UNCHANGED <<result>>
    /\ UNCHANGED <<connections, conns, nConns, pending_keypairs, sessions,
                   op, dev, conn, tries, nEvicts, nHs, stale,
                   disturbed, calls, evicted>>

\* send_encrypted_message, lines 367-383: the session of the connection the
\* pool returned now encrypts the message
SeSession(t) ==
    /\ pc[t] = "se_session"
    /\ UNCHANGED notClient
    /\ IF conns[conn[t]].session = 0
       THEN /\ pc' = [pc EXCEPT ![t] = "done"]
            /\ result' = [result EXCEPT ![t] = "NoSession"]
            /\ UNCHANGED <<frame, phase>>
       ELSE /\ frame' = [frame EXCEPT ![t] =
                           Frame("EncryptedMessage", conns[conn[t]].session)]
            /\ phase' = [phase EXCEPT ![t] = "try1"]
            /\ pc' = [pc EXCEPT ![t] = "gc_check"]
            /\ UNCHANGED <<result>>
    /\ UNCHANGED <<connections, conns, nConns, pending_keypairs, sessions,
                   op, dev, conn, tries, nEvicts, nHs, stale,
                   disturbed, calls, evicted>>

\* SfWrite with a retry loop: every failed write leads to another eviction
SfWrite_retry_loop(t) ==
    /\ pc[t] = "sf_write"
    /\ UNCHANGED notClient
    /\ IF conns[conn[t]].open
       THEN /\ conns' = [conns EXCEPT ![conn[t]].wire = Append(@, frame[t])]
            /\ tries' = [tries EXCEPT ![t] = Append(@, "ok")]
            /\ pc' = [pc EXCEPT ![t] = "done"]
            /\ result' = [result EXCEPT ![t] = "ok"]
       ELSE /\ tries' = [tries EXCEPT ![t] = Append(@, "write_failed")]
            /\ pc' = [pc EXCEPT ![t] = "sf_evict"]
            /\ UNCHANGED <<conns, result>>
    /\ UNCHANGED <<connections, nConns, pending_keypairs, sessions, op, dev,
                   phase, conn, frame, nEvicts, nHs, stale, disturbed,
                   calls, evicted>>

\* try_send_frame, lines 271-272, inside send_frame, lines 249-259: lock the
\* connection and write the frame; a closed socket fails the write
SfWrite(t) ==
    /\ pc[t] = "sf_write"
    /\ UNCHANGED notClient
    /\ IF conns[conn[t]].open
       THEN /\ conns' = [conns EXCEPT ![conn[t]].wire = Append(@, frame[t])]
            /\ tries' = [tries EXCEPT ![t] = Append(@, "ok")]
            /\ pc' = [pc EXCEPT ![t] = "done"]
            /\ result' = [result EXCEPT ![t] = "ok"]
       ELSE /\ tries' = [tries EXCEPT ![t] = Append(@, "write_failed")]
            /\ pc' = [pc EXCEPT ![t] = IF phase[t] = "try1" THEN "sf_evict" ELSE "done"]
            /\ result' = [result EXCEPT ![t] = IF phase[t] = "try1" THEN @ ELSE "SendFailed"]
            /\ UNCHANGED <<conns>>
    /\ UNCHANGED <<connections, nConns, pending_keypairs, sessions, op, dev,
                   phase, conn, frame, nEvicts, nHs, stale, disturbed,
                   calls, evicted>>

\* close_connection, lines 462-467
close_connection(d) ==
    /\ connections' = [connections EXCEPT ![d] = 0]
    /\ evicted' = (evicted \/ connections[d] # 0)

\* SfEvict that retries without removing the pool entry
SfEvict_keep_entry(t) ==
    /\ pc[t] = "sf_evict"
    /\ UNCHANGED notClient
    /\ nEvicts' = [nEvicts EXCEPT ![t] = @ + 1]
    /\ phase' = [phase EXCEPT ![t] = "try2"]
    /\ pc' = [pc EXCEPT ![t] = "gc_check"]
    /\ UNCHANGED <<connections, evicted, conns, nConns, pending_keypairs,
                   sessions, op, dev, conn, frame, tries, nHs, stale,
                   disturbed, result, calls>>

\* send_frame, lines 251-257: after a failed first try, evict and retry
SfEvict(t) ==
    /\ pc[t] = "sf_evict"
    /\ UNCHANGED notClient
    /\ close_connection(dev[t])
    /\ nEvicts' = [nEvicts EXCEPT ![t] = @ + 1]
    /\ phase' = [phase EXCEPT ![t] = "try2"]
    /\ pc' = [pc EXCEPT ![t] = "gc_check"]
    /\ UNCHANGED <<conns, nConns, pending_keypairs, sessions, op, dev, conn,
                   frame, tries, nHs, stale, disturbed, result, calls>>

\* the peer, or the network, closes the socket of a connection that the
\* client still holds (in the pool or in a running call)
PeerClose(c) ==
    /\ c <= nConns
    /\ UNCHANGED notClient
    /\ conns[c].open
    /\ \/ \E d \in Devices : connections[d] = c
       \/ \E t \in Tasks : Active(t) /\ conn[t] = c
    /\ conns' = [conns EXCEPT ![c].open = FALSE]
    /\ disturbed' = [t \in Tasks |-> disturbed[t] \/ Active(t)]
    /\ UNCHANGED <<connections, nConns, pending_keypairs, sessions, pc, op,
                   dev, phase, conn, frame, tries, nEvicts, nHs, stale,
                   result, calls, evicted>>

\* =================================================== server.rs: TcpServer
MaxFileSize == 2     \* largest file_size of a FILE_STREAM_INIT
MaxChunk == 2        \* largest FILE_DATA payload of an encrypted stream

\* A frame as the server reads it.  `valid`: the payload deserializes as the
\* payload type of the frame (JSON, or the binary FileDataHeader);
\* `device_id`: of HELLO / HELLO_SECURE; `enc`, `inner`: of an
\* ENCRYPTED_MESSAGE, how decryption goes and the "type" of the decrypted
\* JSON; `size`: file_size of FILE_STREAM_INIT; `len`: payload length of
\* FILE_DATA.
SrvFrame(ty, v, d, e, i, sz, l) ==
    [type |-> ty, valid |-> v, device_id |-> d, enc |-> e, inner |-> i,
     size |-> sz, len |-> l]

InnerTypes == {"TEXT_MESSAGE", "FILE_REQUEST", "FILE_COMPLETE", "FILE_CANCEL",
               "FILE_REJECT", "HEARTBEAT"}

\* how the envelope of an ENCRYPTED_MESSAGE fares: the envelope does not
\* deserialize, AES-GCM rejects the tag, the plaintext is not UTF-8, the
\* plaintext is not JSON, or it decrypts to JSON
EncKinds == {"bad_envelope", "auth_failure", "bad_utf8", "bad_json", "ok"}

SrvFrames ==
    {SrvFrame(ty, v, 0, "ok", "TEXT_MESSAGE", 0, 0) :
        ty \in MessageType \ {"Hello", "HelloSecure", "EncryptedMessage",
                              "FileStreamInit", "FileData"},
        v \in BOOLEAN}
    \cup {SrvFrame(ty, TRUE, d, "ok", "TEXT_MESSAGE", 0, 0) :
            ty \in {"Hello", "HelloSecure"}, d \in Devices}
    \cup {SrvFrame(ty, FALSE, 0, "ok", "TEXT_MESSAGE", 0, 0) :
            ty \in {"Hello", "HelloSecure"}}
    \cup {SrvFrame("EncryptedMessage", e = "ok", 0, e, "TEXT_MESSAGE", 0, 0) :
            e \in EncKinds \ {"ok"}}
    \cup {SrvFrame("EncryptedMessage", v, 0, "ok", i, 0, 0) :
            i \in InnerTypes, v \in BOOLEAN}
    \cup {SrvFrame("FileStreamInit", TRUE, 0, "ok", "TEXT_MESSAGE", sz, 0) :
            sz \in 0..MaxFileSize}
    \cup {SrvFrame("FileStreamInit", FALSE, 0, "ok", "TEXT_MESSAGE", 0, 0)}
    \cup {SrvFrame("FileData", v, 0, "ok", "TEXT_MESSAGE", 0, l) :
            v \in BOOLEAN, l \in 0..MaxChunk}

NoSrvFrame == SrvFrame("Error", TRUE, 0, "ok", "TEXT_MESSAGE", 0, 0)

\* The handler tasks that TcpServer::start spawns share no state that
\* handle_connection reads, so the model follows one of them.
\* handle_connection before the first frame.  `state`: where the handler
\* is; `peer`: peer_device_id (0: None); `exit`: how handle_connection
\* returned; `last`: the frame handled last and the state it arrived in; `emitted`: events emitted while
\* handling it; `connected` / `disconnected`: device ids of the
\* device-connected / device-disconnected events emitted so far;
\* `response`: HELLO_RESPONSE frames written; `file_size`,
\* `total_received`: of the running encrypted file stream.
NewHandler ==
    [state |-> "await_first", peer |-> 0, exit |-> "none",
     last |-> [in |-> "none", frame |-> NoSrvFrame], emitted |-> {},
     connected |-> {}, disconnected |-> {}, response |-> 0,
     file_size |-> 0, total_received |-> 0]

InitServer == server = NewHandler

Ok(ev) == [ok |-> TRUE, err |-> "none", events |-> ev]
Err(reason, ev) == [ok |-> FALSE, err |-> reason, events |-> ev]

\* handle_plaintext_frame and the handle_* functions it calls, lines 516-722
handle_plaintext_frame(f) ==
    CASE f.type = "Hello" ->
           IF f.valid THEN Ok({"device-connected"}) ELSE Err("invalid_payload", {})
      [] f.type = "TextMessage" ->
           IF f.valid THEN Ok({"message-received"}) ELSE Err("invalid_payload", {})
      [] f.type = "FileRequest" ->
           IF f.valid THEN Ok({"file-request-received"}) ELSE Err("invalid_payload", {})
      [] f.type = "FileData" ->
           IF f.valid THEN Ok({"transfer-progress"}) ELSE Err("invalid_payload", {})
      [] f.type = "FileAck" -> Ok({})
      [] f.type = "FileComplete" ->
           IF f.valid THEN Ok({"transfer-completed"}) ELSE Err("invalid_payload", {})
      [] f.type = "FileCancel" ->
           IF f.valid THEN Ok({"file-cancelled"}) ELSE Err("invalid_payload", {})
      [] f.type = "FileReject" ->
           IF f.valid THEN Ok({"file-rejected"}) ELSE Err("invalid_payload", {})
      [] f.type = "Heartbeat" ->
           IF f.valid THEN Ok({}) ELSE Err("invalid_payload", {})
      [] f.type = "Error" -> Ok({})
      [] OTHER -> Ok({})

\* handle_encrypted_message without the security-error event
handle_encrypted_message_silent(f) ==
    CASE f.enc = "bad_envelope" -> Err("invalid_payload", {})
      [] f.enc \in {"auth_failure", "bad_utf8"} -> Err("decryption_failed", {})
      [] f.enc = "bad_json" -> Err("invalid_payload", {})
      [] f.inner = "HEARTBEAT" -> Err("unknown_inner_type", {})
      [] ~f.valid -> Err("invalid_payload", {})
      [] f.inner = "TEXT_MESSAGE" -> Ok({"message-received"})
      [] f.inner = "FILE_REQUEST" -> Ok({"file-request-received"})
      [] f.inner = "FILE_COMPLETE" -> Ok({"transfer-completed"})
      [] f.inner = "FILE_CANCEL" -> Ok({"file-cancelled"})
      [] OTHER -> Ok({"file-rejected"})

\* handle_encrypted_message, lines 321-387: deserialize the envelope,
\* decrypt (a failure emits security-error), parse, route on the inner type
handle_encrypted_message(f) ==
    CASE f.enc = "bad_envelope" -> Err("invalid_payload", {})
      [] f.enc \in {"auth_failure", "bad_utf8"} ->
           Err("decryption_failed", {"security-error"})
      [] f.enc = "bad_json" -> Err("invalid_payload", {})
      [] f.inner = "HEARTBEAT" -> Err("unknown_inner_type", {})
      [] ~f.valid -> Err("invalid_payload", {})
      [] f.inner = "TEXT_MESSAGE" -> Ok({"message-received"})
      [] f.inner = "FILE_REQUEST" -> Ok({"file-request-received"})
      [] f.inner = "FILE_COMPLETE" -> Ok({"transfer-completed"})
      [] f.inner = "FILE_CANCEL" -> Ok({"file-cancelled"})
      [] OTHER -> Ok({"file-rejected"})

\* the match of handle_encrypted_session with a lenient last arm
encrypted_session_frame_lenient(f, io_ok) ==
    CASE f.type = "EncryptedMessage" -> handle_encrypted_message(f)
      [] f.type = "FileStreamInit" ->
           IF ~f.valid THEN Err("invalid_payload", {})
           ELSE IF ~io_ok THEN Err("io", {})
           ELSE Ok({})
      [] f.type = "Heartbeat" -> Ok({})
      [] OTHER -> handle_plaintext_frame(f)

\* handle_encrypted_session, lines 288-316: the match on the frame type
\* (for FILE_STREAM_INIT: handle_encrypted_file_stream up to its receive
\* loop, lines 400-423)
encrypted_session_frame(f, io_ok) ==
    CASE f.type = "EncryptedMessage" -> handle_encrypted_message(f)
      [] f.type = "FileStreamInit" ->
           IF ~f.valid THEN Err("invalid_payload", {})
           ELSE IF ~io_ok THEN Err("io", {})
           ELSE Ok({})
      [] f.type = "Heartbeat" -> Ok({})
      [] OTHER -> Err("protocol_violation", {})

\* handle_secure_connection, lines 258-262: what follows the session loop
\* however it ended
SecureTeardown(h, reason, ev) ==
    [h EXCEPT !.state = "closed", !.exit = reason,
              !.emitted = ev \cup {"device-disconnected"},
              !.disconnected = @ \cup {h.peer}]

\* handle_connection returns without any cleanup
Return(h, reason, ev) ==
    [h EXCEPT !.state = "closed", !.exit = reason, !.emitted = ev]

\* handle_plaintext_connection, lines 478-484 and 505-511: a frame goes
\* through handle_plaintext_frame; `?` returns its error
PlaintextFrame(h, f) ==
    LET r == handle_plaintext_frame(f) IN
    IF r.ok
    THEN [h EXCEPT !.state = "plaintext", !.emitted = r.events,
                   !.peer = IF f.type = "Hello" THEN f.device_id ELSE @,
                   !.connected = IF f.type = "Hello" THEN @ \cup {f.device_id} ELSE @]
    ELSE Return(h, r.err, r.events)

\* handle_connection, lines 131-175, with handle_secure_connection, lines
\* 189-246: the first frame decides between the secure handshake and the
\* plaintext loop
FirstFrame(f, io_ok) ==
    /\ server.state = "await_first"
    /\ LET h == [server EXCEPT !.last = [in |-> "await_first", frame |-> f]] IN
       server' =
         IF f.type = "HelloSecure"
         THEN IF ~f.valid THEN Return(h, "invalid_payload", {})
              ELSE IF ~io_ok THEN Return(h, "io", {})
              ELSE [h EXCEPT !.state = "encrypted", !.peer = f.device_id,
                             !.response = @ + 1,
                             !.emitted = {"device-connected"},
                             !.connected = @ \cup {f.device_id}]
         ELSE LET p == PlaintextFrame(h, f) IN
              [p EXCEPT !.emitted = @ \cup {"security-warning"}]
    /\ UNCHANGED notServer

\* handle_encrypted_session, lines 273-317
EncryptedFrame(f, io_ok) ==
    /\ server.state = "encrypted"
    /\ LET h == [server EXCEPT !.last = [in |-> "encrypted", frame |-> f]]
           r == encrypted_session_frame(f, io_ok) IN
       server' =
         IF ~r.ok THEN SecureTeardown(h, r.err, r.events)
         ELSE IF f.type = "FileStreamInit" /\ 0 < f.size
         THEN [h EXCEPT !.state = "file_stream", !.emitted = r.events,
                        !.file_size = f.size, !.total_received = 0]
         ELSE [h EXCEPT !.emitted = r.events]
    /\ UNCHANGED notServer

\* handle_encrypted_file_stream, lines 426-463: the receive loop
FileStreamFrame(f, io_ok) ==
    /\ server.state = "file_stream"
    /\ LET h == [server EXCEPT !.last = [in |-> "file_stream", frame |-> f]] IN
       server' =
         IF f.type # "FileData" THEN SecureTeardown(h, "protocol_violation", {})
         ELSE IF ~io_ok THEN SecureTeardown(h, "io", {})
         ELSE [h EXCEPT !.total_received = @ + f.len,
                        !.emitted = {"transfer-progress"},
                        !.state = IF h.total_received + f.len < h.file_size
                                  THEN "file_stream" ELSE "encrypted"]
    /\ UNCHANGED notServer

\* handle_plaintext_connection, lines 487-512
PlaintextLoopFrame(f) ==
    /\ server.state = "plaintext"
    /\ server' =
         PlaintextFrame([server EXCEPT !.last = [in |-> "plaintext", frame |-> f]], f)
    /\ UNCHANGED notServer

\* the peer closes the connection between two frames: read_exact fails
\* with UnexpectedEof
Eof ==
    /\ server.state # "closed"
    /\ LET h == server IN
       server' =
         CASE h.state = "await_first" -> Return(h, "first_frame", {})
           [] h.state = "encrypted" -> SecureTeardown(h, "ok", {})
           [] h.state = "file_stream" -> SecureTeardown(h, "read_failed", {})
           [] OTHER ->
                IF h.peer # 0
                THEN [Return(h, "ok", {"device-disconnected"}) EXCEPT
                        !.disconnected = @ \cup {h.peer}]
                ELSE Return(h, "ok", {})
    /\ UNCHANGED notServer

\* the 120 s timeout around decode_async expires (session loop, plaintext loop)
IdleTimeout ==
    /\ server.state \in {"encrypted", "plaintext"}
    /\ LET h == server IN
       server' =
         IF h.state = "encrypted" THEN SecureTeardown(h, "timeout", {})
         ELSE Return(h, "timeout", {})
    /\ UNCHANGED notServer

\* decode_async fails otherwise: socket error, unknown type byte, oversized
\* length
ReadError ==
    /\ server.state # "closed"
    /\ LET h == server IN
       server' =
         CASE h.state = "await_first" -> Return(h, "first_frame", {})
           [] h.state \in {"encrypted", "file_stream"} ->
                SecureTeardown(h, "read_failed", {})
           [] OTHER -> Return(h, "read_failed", {})
    /\ UNCHANGED notServer

NextServer ==
    \/ \E f \in SrvFrames, io_ok \in BOOLEAN : FirstFrame(f, io_ok)
    \/ \E f \in SrvFrames, io_ok \in BOOLEAN : EncryptedFrame(f, io_ok)
    \/ \E f \in SrvFrames, io_ok \in BOOLEAN : FileStreamFrame(f, io_ok)
    \/ \E f \in SrvFrames : PlaintextLoopFrame(f)
    \/ Eof
    \/ IdleTimeout
    \/ ReadError

\* ============================== file_transfer.rs: FileTransferService
NTransfers == 4      \* transfers created in one run
MaxStops == 1        \* pause_transfer and cancel_transfer calls in one run

MAX_CONCURRENT_TRANSFERS == 3

TransferIds == 1..NTransfers

TransferStatus == {"Pending", "InProgress", "Paused", "Completed", "Failed",
                   "Cancelled", "AwaitingAcceptance"}

NContents == 2       \* distinct file contents

Contents == 1..NContents

NoFile == 0           \* no file at the path

\* SHA-256 of a file content, as calculate_checksum returns it: equal
\* digests only for equal contents
Sha256(c) == <<"sha256", c>>

Digests == {Sha256(c) : c \in Contents}

\* the file that create_transfer found at file_path
SourceFile == CHOOSE c \in Contents : TRUE

\* the transfer that the sender and receiver steps follow
Followed == {id \in TransferIds : \A j \in TransferIds : id <= j}

NoRet == [op |-> "none", val |-> "none"]

NoChunk == [pc |-> "idle", id |-> 0, end |-> 0, data |-> 0]

NoComplete == [pc |-> "idle", id |-> 0, checksum |-> <<>>]

\* perform_transfer before its first statement.  `size`: length of the
\* file; `offset`: local `offset`; `wire`: frames handed to the TcpClient
\* with success; `stop_len`: Len(wire) when Paused or Cancelled was seen.
NewSender == [pc |-> "open", size |-> 0, offset |-> 0, wire |-> <<>>,
              stop_len |-> 0]

\* FileTransferService::new: empty table, no client, nothing active
InitEngine ==
    /\ transfers = [id \in TransferIds |-> "absent"]
    /\ active_transfers = 0
    /\ tcp_client = FALSE
    /\ starting = {}
    /\ stops = 0
    /\ task = [id \in TransferIds |-> "none"]
    /\ file_path = [id \in TransferIds |-> "none"]
    /\ transferred = [id \in TransferIds |-> 0]
    /\ disk = [id \in TransferIds |-> NoFile]
    /\ was_cancelled = {}
    /\ ret = NoRet
    /\ rc = NoChunk
    /\ sender = NewSender
    /\ table_lock = "free"
    /\ hc = NoComplete

\* set_tcp_client, lines 118-120
set_tcp_client ==
    /\ ~tcp_client
    /\ tcp_client' = TRUE
    /\ UNCHANGED <<transfers, active_transfers, starting, stops, task>>
    /\ UNCHANGED xferVars
    /\ UNCHANGED lockVars
    /\ UNCHANGED notEngine

\* create_transfer, lines 123-164: a new entry, Pending (ids are handed out
\* in order)
create_transfer(id) ==
    /\ table_lock = "free"
    /\ transfers[id] = "absent"
    /\ \A j \in TransferIds : j < id => transfers[j] # "absent"
    /\ transfers' = [transfers EXCEPT ![id] = "Pending"]
    /\ file_path' = [file_path EXCEPT ![id] = "src"]
    /\ transferred' = [transferred EXCEPT ![id] = 0]
    /\ disk' = [disk EXCEPT ![id] = SourceFile]
    /\ UNCHANGED <<active_transfers, tcp_client, starting, stops, task>>
    /\ UNCHANGED <<was_cancelled, ret, rc, sender>>
    /\ UNCHANGED lockVars
    /\ UNCHANGED notEngine

\* update_status, lines 641-651
update_status(id, status) ==
    transfers' = [transfers EXCEPT ![id] = IF @ = "absent" THEN @ ELSE status]

\* pause_transfer, lines 617-620
pause_transfer(id) ==
    /\ table_lock = "free"
    /\ stops < MaxStops
    /\ transfers[id] # "absent"
    /\ update_status(id, "Paused")
    /\ stops' = stops + 1
    /\ UNCHANGED <<active_transfers, tcp_client, starting, task>>
    /\ UNCHANGED xferVars
    /\ UNCHANGED lockVars
    /\ UNCHANGED notEngine

\* cancel_transfer, lines 623-626
cancel_transfer(id) ==
    /\ table_lock = "free"
    /\ stops < MaxStops
    /\ transfers[id] # "absent"
    /\ update_status(id, "Cancelled")
    /\ was_cancelled' = was_cancelled \cup {id}
    /\ stops' = stops + 1
    /\ UNCHANGED <<active_transfers, tcp_client, starting, task>>
    /\ UNCHANGED <<file_path, transferred, disk, ret, rc, sender>>
    /\ UNCHANGED lockVars
    /\ UNCHANGED notEngine

\* start_transfer, lines 174-182: the admission check; a call that passes
\* goes on to the table (a call that fails returns the limit error)
StartCheck(id) ==
    /\ id \notin starting
    /\ task[id] = "none"
    /\ transfers[id] # "absent"
    /\ active_transfers < MAX_CONCURRENT_TRANSFERS
    /\ starting' = starting \cup {id}
    /\ UNCHANGED <<transfers, active_transfers, tcp_client, stops, task>>
    /\ UNCHANGED xferVars
    /\ UNCHANGED lockVars
    /\ UNCHANGED notEngine

\* start_transfer, lines 184-250: client, table lookup, status check,
\* Pending -> InProgress, address, spawn
StartAdmit(id, address) ==
    /\ table_lock = "free"
    /\ id \in starting
    /\ starting' = starting \ {id}
    /\ IF ~tcp_client \/ transfers[id] # "Pending"
       THEN UNCHANGED <<transfers, task>>
       ELSE /\ transfers' = [transfers EXCEPT ![id] = "InProgress"]
            /\ task' = [task EXCEPT ![id] = IF address THEN "spawned" ELSE @]
    /\ UNCHANGED <<active_transfers, tcp_client, stops>>
    /\ UNCHANGED xferVars
    /\ UNCHANGED lockVars
    /\ UNCHANGED notEngine

\* the spawned task, lines 221-224: count itself active
TaskBegin(id) ==
    /\ task[id] = "spawned"
    /\ active_transfers' = active_transfers + 1
    /\ task' = [task EXCEPT ![id] = "running"]
    /\ UNCHANGED <<transfers, tcp_client, starting, stops>>
    /\ UNCHANGED xferVars
    /\ UNCHANGED lockVars
    /\ UNCHANGED notEngine

\* perform_transfer, lines 254-412, from the caller's side: it returns Ok
\* after marking the transfer Completed, Ok without a word when it saw
\* Paused or Cancelled, or Err
TaskPerform(id, outcome) ==
    /\ table_lock = "free"
    /\ task[id] = "running"
    /\ outcome = "stopped" => transfers[id] \in {"Paused", "Cancelled"}
    /\ transfers' = [transfers EXCEPT ![id] =
                       IF outcome = "completed" THEN "Completed" ELSE @]
    /\ task' = [task EXCEPT ![id] = IF outcome = "failed" THEN "failing" ELSE "ending"]
    /\ UNCHANGED <<active_transfers, tcp_client, starting, stops>>
    /\ UNCHANGED xferVars
    /\ UNCHANGED lockVars
    /\ UNCHANGED notEngine

\* the spawned task, lines 236-247: count itself out, then mark a failure
TaskEnd(id) ==
    /\ task[id] = "failing" => table_lock = "free"
    /\ task[id] \in {"ending", "failing"}
    /\ active_transfers' = active_transfers - 1
    /\ IF task[id] = "failing" THEN update_status(id, "Failed")
       ELSE UNCHANGED transfers
    /\ task' = [task EXCEPT ![id] = "done"]
    /\ UNCHANGED <<tcp_client, starting, stops>>
    /\ UNCHANGED xferVars
    /\ UNCHANGED lockVars
    /\ UNCHANGED notEngine

NextEngine ==
    \/ set_tcp_client
    \/ \E id \in TransferIds : create_transfer(id)
    \/ \E id \in TransferIds : pause_transfer(id)
    \/ \E id \in TransferIds : cancel_transfer(id)
    \/ \E id \in TransferIds : StartCheck(id)
    \/ \E id \in TransferIds, address \in BOOLEAN : StartAdmit(id, address)
    \/ \E id \in TransferIds : TaskBegin(id)
    \/ \E id \in TransferIds, outcome \in {"completed", "stopped", "failed"} :
          TaskPerform(id, outcome)
    \/ \E id \in TransferIds : TaskEnd(id)

\* ---- perform_transfer, lines 254-412, one await at a time

\* frames that perform_transfer hands to the TcpClient
FileRequestFrame(checksum) ==
    [type |-> "FileRequest", offset |-> 0, chunk_size |-> 0, checksum |-> checksum]

FileDataFrame(offset, chunk_size) ==
    [type |-> "FileData", offset |-> offset, chunk_size |-> chunk_size,
     checksum |-> <<>>]

FileCompleteFrame(checksum) ==
    [type |-> "FileComplete", offset |-> 0, chunk_size |-> 0, checksum |-> checksum]

\* the `checksum` local of perform_transfer, line 274
SenderChecksum(id) == Sha256(disk[id])

\* perform_transfer returns Err (`?`): the task goes on to mark the failure
SndFail(id) ==
    /\ sender' = [sender EXCEPT !.pc = "failed"]
    /\ task' = [task EXCEPT ![id] = "failing"]

\* lines 262-297: open the file, compute the checksum, send FILE_REQUEST.
\* `size`: length of the file; `io`: open and checksum succeed; `sent`:
\* send_file_request succeeds.
SndRequest(id, size, io, sent) ==
    /\ task[id] = "running"
    /\ sender.pc = "open"
    /\ IF io /\ sent /\ disk[id] # NoFile
       THEN /\ sender' = [sender EXCEPT
                   !.pc = "check", !.size = size,
                   !.wire = Append(@, FileRequestFrame(SenderChecksum(id)))]
            /\ UNCHANGED task
       ELSE SndFail(id)
    /\ UNCHANGED <<transfers, active_transfers, tcp_client, starting, stops>>
    /\ UNCHANGED <<file_path, transferred, disk, was_cancelled, ret, rc>>
    /\ UNCHANGED lockVars
    /\ UNCHANGED notEngine

\* lines 306-321 with a Paused or Cancelled status treated as an error
SndCheck_stop_is_error(id) ==
    /\ table_lock = "free"
    /\ task[id] = "running"
    /\ sender.pc = "check"
    /\ IF transfers[id] \in {"Cancelled", "Paused"}
       THEN /\ sender' = [sender EXCEPT !.pc = "stopped",
                                        !.stop_len = Len(sender.wire)]
            /\ task' = [task EXCEPT ![id] = "failing"]
       ELSE /\ sender' = [sender EXCEPT !.pc = "read"]
            /\ UNCHANGED task
    /\ UNCHANGED <<transfers, active_transfers, tcp_client, starting, stops>>
    /\ UNCHANGED <<file_path, transferred, disk, was_cancelled, ret, rc>>
    /\ UNCHANGED lockVars
    /\ UNCHANGED notEngine

\* lines 306-321: the status check at the top of the loop; Cancelled or
\* Paused makes perform_transfer return Ok(())
SndCheck(id) ==
    /\ table_lock = "free"
    /\ task[id] = "running"
    /\ sender.pc = "check"
    /\ IF transfers[id] \in {"Cancelled", "Paused"}
       THEN /\ sender' = [sender EXCEPT !.pc = "stopped",
                                        !.stop_len = Len(sender.wire)]
            /\ task' = [task EXCEPT ![id] = "ending"]
       ELSE /\ sender' = [sender EXCEPT !.pc = "read"]
            /\ UNCHANGED task
    /\ UNCHANGED <<transfers, active_transfers, tcp_client, starting, stops>>
    /\ UNCHANGED <<file_path, transferred, disk, was_cancelled, ret, rc>>
    /\ UNCHANGED lockVars
    /\ UNCHANGED notEngine

\* lines 325-352: read a chunk (`bytes_read` bytes, 0 exactly at the end of
\* the file), send it as FILE_DATA at `offset`, advance `offset`.  `io`:
\* the read succeeds; `sent`: send_file_data succeeds.
SndData(id, bytes_read, io, sent) ==
    /\ task[id] = "running"
    /\ sender.pc = "read"
    /\ bytes_read = 0 <=> sender.offset = sender.size
    /\ sender.offset + bytes_read <= sender.size
    /\ IF ~io THEN SndFail(id)
       ELSE IF bytes_read = 0
       THEN /\ sender' = [sender EXCEPT !.pc = "complete"]
            /\ UNCHANGED task
       ELSE IF ~sent THEN SndFail(id)
       ELSE /\ sender' = [sender EXCEPT
                   !.pc = "update",
                   !.wire = Append(@, FileDataFrame(sender.offset, bytes_read)),
                   !.offset = @ + bytes_read]
            /\ UNCHANGED task
    /\ UNCHANGED <<transfers, active_transfers, tcp_client, starting, stops>>
    /\ UNCHANGED <<file_path, transferred, disk, was_cancelled, ret, rc>>
    /\ UNCHANGED lockVars
    /\ UNCHANGED notEngine

\* lines 361-372: store the progress in the table, emit transfer-progress
SndUpdate(id) ==
    /\ table_lock = "free"
    /\ task[id] = "running"
    /\ sender.pc = "update"
    /\ transferred' = [transferred EXCEPT ![id] =
                         IF transfers[id] = "absent" THEN @ ELSE sender.offset]
    /\ sender' = [sender EXCEPT !.pc = "check"]
    /\ UNCHANGED <<transfers, active_transfers, tcp_client, starting, stops, task>>
    /\ UNCHANGED <<file_path, disk, was_cancelled, ret, rc>>
    /\ UNCHANGED lockVars
    /\ UNCHANGED notEngine

\* lines 376-390 without the send: straight on to the completed mark
SndComplete_skip_frame(id, sent) ==
    /\ task[id] = "running"
    /\ sender.pc = "complete"
    /\ IF sent
       THEN /\ sender' = [sender EXCEPT !.pc = "mark"]
            /\ UNCHANGED task
       ELSE SndFail(id)
    /\ UNCHANGED <<transfers, active_transfers, tcp_client, starting, stops>>
    /\ UNCHANGED <<file_path, transferred, disk, was_cancelled, ret, rc>>
    /\ UNCHANGED lockVars
    /\ UNCHANGED notEngine

\* lines 376-390: send FILE_COMPLETE with the `checksum` local of line 274,
\* the one that went out in FILE_REQUEST
SndComplete(id, sent) ==
    /\ task[id] = "running"
    /\ sender.pc = "complete"
    /\ IF sent
       THEN /\ sender' = [sender EXCEPT
                   !.pc = "mark",
                   !.wire = Append(@, FileCompleteFrame(sender.wire[1].checksum))]
            /\ UNCHANGED task
       ELSE SndFail(id)
    /\ UNCHANGED <<transfers, active_transfers, tcp_client, starting, stops>>
    /\ UNCHANGED <<file_path, transferred, disk, was_cancelled, ret, rc>>
    /\ UNCHANGED lockVars
    /\ UNCHANGED notEngine

\* lines 393-411: mark the transfer Completed, emit transfer-completed,
\* return Ok(())
SndMark(id) ==
    /\ table_lock = "free"
    /\ task[id] = "running"
    /\ sender.pc = "mark"
    /\ update_status(id, "Completed")
    /\ sender' = [sender EXCEPT !.pc = "finished"]
    /\ task' = [task EXCEPT ![id] = "ending"]
    /\ UNCHANGED <<active_transfers, tcp_client, starting, stops>>
    /\ UNCHANGED <<file_path, transferred, disk, was_cancelled, ret, rc>>
    /\ UNCHANGED lockVars
    /\ UNCHANGED notEngine

\* the sending side of one transfer, perform_transfer step by step
NextSender ==
    \/ set_tcp_client
    \/ \E id \in Followed : create_transfer(id)
    \/ \E id \in Followed : pause_transfer(id)
    \/ \E id \in Followed : cancel_transfer(id)
    \/ \E id \in Followed : StartCheck(id)
    \/ \E id \in Followed, address \in BOOLEAN : StartAdmit(id, address)
    \/ \E id \in Followed : TaskBegin(id)
    \/ \E id \in Followed, size \in 0..MaxFileSize, io \in BOOLEAN, sent \in BOOLEAN :
          SndRequest(id, size, io, sent)
    \/ \E id \in Followed : SndCheck(id)
    \/ \E id \in Followed, bytes_read \in 0..MaxChunk, io \in BOOLEAN, sent \in BOOLEAN :
          SndData(id, bytes_read, io, sent)
    \/ \E id \in Followed : SndUpdate(id)
    \/ \E id \in Followed, sent \in BOOLEAN : SndComplete(id, sent)
    \/ \E id \in Followed : SndMark(id)
    \/ \E id \in Followed : TaskEnd(id)

\* ---- the receiving side, lines 446-614

Ret(call, val) == [op |-> call, val |-> val]

\* receive_file_request, lines 446-474: a new entry under the payload's
\* transfer_id, in place of any entry already there
receive_file_request(id) ==
    /\ table_lock = "free"
    /\ transfers' = [transfers EXCEPT ![id] = "AwaitingAcceptance"]
    /\ file_path' = [file_path EXCEPT ![id] = "none"]
    /\ transferred' = [transferred EXCEPT ![id] = 0]
    /\ ret' = Ret("receive_file_request", "ok")
    /\ UNCHANGED <<active_transfers, tcp_client, starting, stops, task>>
    /\ UNCHANGED <<disk, was_cancelled, rc, sender>>
    /\ UNCHANGED lockVars
    /\ UNCHANGED notEngine

\* lines 477-493 without the status test of lines 481-483
accept_transfer_any_status(id, existing) ==
    /\ table_lock = "free"
    /\ IF transfers[id] = "absent"
       THEN /\ ret' = Ret("accept_transfer", "err")
            /\ UNCHANGED <<transfers, file_path, disk>>
       ELSE /\ file_path' = [file_path EXCEPT ![id] = "dst"]
            /\ disk' = [disk EXCEPT ![id] = existing]
            /\ transfers' = [transfers EXCEPT ![id] = "InProgress"]
            /\ ret' = Ret("accept_transfer", "ok")
    /\ UNCHANGED <<active_transfers, tcp_client, starting, stops, task>>
    /\ UNCHANGED <<transferred, was_cancelled, rc, sender>>
    /\ UNCHANGED lockVars
    /\ UNCHANGED notEngine

\* accept_transfer, lines 477-493.  `existing`: what is at
\* transfer_dir/filename when file_path starts to name it.
accept_transfer(id, existing) ==
    /\ table_lock = "free"
    /\ IF transfers[id] # "AwaitingAcceptance"
       THEN /\ ret' = Ret("accept_transfer", "err")
            /\ UNCHANGED <<transfers, file_path, disk>>
       ELSE /\ file_path' = [file_path EXCEPT ![id] = "dst"]
            /\ disk' = [disk EXCEPT ![id] = existing]
            /\ transfers' = [transfers EXCEPT ![id] = "InProgress"]
            /\ ret' = Ret("accept_transfer", "ok")
    /\ UNCHANGED <<active_transfers, tcp_client, starting, stops, task>>
    /\ UNCHANGED <<transferred, was_cancelled, rc, sender>>
    /\ UNCHANGED lockVars
    /\ UNCHANGED notEngine

\* reject_transfer, lines 496-509
reject_transfer(id) ==
    /\ table_lock = "free"
    /\ IF transfers[id] # "AwaitingAcceptance"
       THEN /\ ret' = Ret("reject_transfer", "err")
            /\ UNCHANGED <<transfers, was_cancelled>>
       ELSE /\ transfers' = [transfers EXCEPT ![id] = "Cancelled"]
            /\ was_cancelled' = was_cancelled \cup {id}
            /\ ret' = Ret("reject_transfer", "ok")
    /\ UNCHANGED <<active_transfers, tcp_client, starting, stops, task>>
    /\ UNCHANGED <<file_path, transferred, disk, rc, sender>>
    /\ UNCHANGED lockVars
    /\ UNCHANGED notEngine

\* lines 518-543 without the status test of lines 529-534
RcCheck_any_status(id, offset, chunk_size, data, valid) ==
    /\ table_lock = "free"
    /\ rc.pc = "idle"
    /\ IF ~valid \/ transfers[id] = "absent" \/ file_path[id] = "none"
       THEN /\ ret' = Ret("receive_file_chunk", "err")
            /\ UNCHANGED rc
       ELSE /\ rc' = [pc |-> "write", id |-> id,
                      end |-> offset + chunk_size, data |-> data]
            /\ UNCHANGED ret
    /\ UNCHANGED <<transfers, active_transfers, tcp_client, starting, stops, task>>
    /\ UNCHANGED <<file_path, transferred, disk, was_cancelled, sender>>
    /\ UNCHANGED lockVars
    /\ UNCHANGED notEngine

\* receive_file_chunk, lines 518-543: decode the header (`valid`), look the
\* transfer up, test its status and its file_path, release the lock.
\* `data`: the content of the file once the chunk is written; `end`:
\* header.offset + header.chunk_size.
RcCheck(id, offset, chunk_size, data, valid) ==
    /\ table_lock = "free"
    /\ rc.pc = "idle"
    /\ IF \/ ~valid
          \/ transfers[id] # "InProgress"
          \/ file_path[id] = "none"
       THEN /\ ret' = Ret("receive_file_chunk", "err")
            /\ UNCHANGED rc
       ELSE /\ rc' = [pc |-> "write", id |-> id,
                      end |-> offset + chunk_size, data |-> data]
            /\ UNCHANGED ret
    /\ UNCHANGED <<transfers, active_transfers, tcp_client, starting, stops, task>>
    /\ UNCHANGED <<file_path, transferred, disk, was_cancelled, sender>>
    /\ UNCHANGED lockVars
    /\ UNCHANGED notEngine

\* receive_file_chunk, lines 546-567: the blocking write at header.offset
RcWrite(written) ==
    /\ rc.pc = "write"
    /\ IF written
       THEN /\ disk' = [disk EXCEPT ![rc.id] = rc.data]
            /\ rc' = [rc EXCEPT !.pc = "update"]
            /\ UNCHANGED ret
       ELSE /\ ret' = Ret("receive_file_chunk", "err")
            /\ rc' = NoChunk
            /\ UNCHANGED disk
    /\ UNCHANGED <<transfers, active_transfers, tcp_client, starting, stops, task>>
    /\ UNCHANGED <<file_path, transferred, was_cancelled, sender>>
    /\ UNCHANGED lockVars
    /\ UNCHANGED notEngine

\* receive_file_chunk, lines 570-579: store the progress
RcUpdate ==
    /\ table_lock = "free"
    /\ rc.pc = "update"
    /\ transferred' = [transferred EXCEPT ![rc.id] =
                         IF transfers[rc.id] = "absent" THEN @
                         ELSE rc.end]
    /\ ret' = Ret("receive_file_chunk", "ok")
    /\ rc' = NoChunk
    /\ UNCHANGED <<transfers, active_transfers, tcp_client, starting, stops, task>>
    /\ UNCHANGED <<file_path, disk, was_cancelled, sender>>
    /\ UNCHANGED lockVars
    /\ UNCHANGED notEngine

\* handle_complete, lines 588-594: lock the table and look the transfer
\* up; without a file_path it is marked Completed at once (lines 603-613),
\* with one the call goes on to the checksum still holding the lock.
\* `checksum`: payload.checksum.
handle_complete(id, checksum) ==
    /\ table_lock = "free"
    /\ IF transfers[id] = "absent"
       THEN /\ ret' = Ret("handle_complete", "err")
            /\ UNCHANGED <<transfers, table_lock, hc>>
       ELSE IF file_path[id] = "none"
       THEN /\ transfers' = [transfers EXCEPT ![id] = "Completed"]
            /\ ret' = Ret("handle_complete", "ok")
            /\ UNCHANGED <<table_lock, hc>>
       ELSE /\ table_lock' = "handle_complete"
            /\ hc' = [pc |-> "checksum", id |-> id, checksum |-> checksum]
            /\ UNCHANGED <<transfers, ret>>
    /\ UNCHANGED <<active_transfers, tcp_client, starting, stops, task>>
    /\ UNCHANGED <<file_path, transferred, disk, was_cancelled, rc, sender>>
    /\ UNCHANGED notEngine

\* handle_complete, lines 595-613: calculate_checksum reads the file while
\* the table guard of line 588 is alive; then Failed or Completed, and the
\* guard is dropped on return
HcChecksum ==
    /\ hc.pc = "checksum"
    /\ IF disk[hc.id] = NoFile
       THEN /\ ret' = Ret("handle_complete", "err")
            /\ UNCHANGED transfers
       ELSE IF Sha256(disk[hc.id]) # hc.checksum
       THEN /\ transfers' = [transfers EXCEPT ![hc.id] = "Failed"]
            /\ ret' = Ret("handle_complete", "err")
       ELSE /\ transfers' = [transfers EXCEPT ![hc.id] = "Completed"]
            /\ ret' = Ret("handle_complete", "ok")
    /\ table_lock' = "free"
    /\ hc' = NoComplete
    /\ UNCHANGED <<active_transfers, tcp_client, starting, stops, task>>
    /\ UNCHANGED <<file_path, transferred, disk, was_cancelled, rc, sender>>
    /\ UNCHANGED notEngine

\* the receiving side of one transfer id, with the calls that stop it
NextReceiver ==
    \/ \E id \in Followed : create_transfer(id)
    \/ \E id \in Followed : pause_transfer(id)
    \/ \E id \in Followed : cancel_transfer(id)
    \/ \E id \in Followed : receive_file_request(id)
    \/ \E id \in Followed, existing \in {NoFile} \cup Contents :
          accept_transfer(id, existing)
    \/ \E id \in Followed : reject_transfer(id)
    \/ \E id \in Followed, offset \in 0..MaxFileSize, chunk_size \in 0..MaxChunk,
          data \in Contents, valid \in BOOLEAN :
          RcCheck(id, offset, chunk_size, data, valid)
    \/ \E written \in BOOLEAN : RcWrite(written)
    \/ RcUpdate
    \/ \E id \in Followed, checksum \in Digests : handle_complete(id, checksum)
    \/ HcChecksum

\* every operation of the service on one transfer id
NextService ==
    \/ set_tcp_client
    \/ \E id \in Followed : create_transfer(id)
    \/ \E id \in Followed : pause_transfer(id)
    \/ \E id \in Followed : cancel_transfer(id)
    \/ \E id \in Followed : StartCheck(id)
    \/ \E id \in Followed, address \in BOOLEAN : StartAdmit(id, address)
    \/ \E id \in Followed : TaskBegin(id)
    \/ \E id \in Followed, outcome \in {"completed", "stopped", "failed"} :
          TaskPerform(id, outcome)
    \/ \E id \in Followed : TaskEnd(id)
    \/ \E id \in Followed : receive_file_request(id)
    \/ \E id \in Followed, existing \in {NoFile} \cup Contents :
          accept_transfer(id, existing)
    \/ \E id \in Followed : reject_transfer(id)
    \/ \E id \in Followed, offset \in 0..MaxFileSize, chunk_size \in 0..MaxChunk,
          data \in Contents, valid \in BOOLEAN :
          RcCheck(id, offset, chunk_size, data, valid)
    \/ \E written \in BOOLEAN : RcWrite(written)
    \/ RcUpdate
    \/ \E id \in Followed, checksum \in Digests : handle_complete(id, checksum)
    \/ HcChecksum

\* ===================================== handshake.rs: HandshakeManager
\* The manager is Send + Sync and its methods are synchronous: threads call
\* them in parallel, and a step of the model is one critical section of one
\* of its two mutexes.
NThreads == 2        \* threads calling the HandshakeManager
MaxHmCalls == 3      \* HandshakeManager calls issued in one run

Threads == 1..NThreads

HmOps == {"initiate_handshake", "handle_hello_secure", "complete_handshake",
          "finalize_handshake", "has_session", "get_session", "pending_count",
          "remove_session"}

InitManager ==
    /\ hpc = [t \in Threads |-> "idle"]
    /\ hop = [t \in Threads |-> "has_session"]
    /\ harg = [t \in Threads |-> 1]
    /\ hkey = [t \in Threads |-> 0]
    /\ hres = [t \in Threads |-> "none"]
    /\ pending_lock = 0
    /\ hcalls = 0

\* a thread enters a method of the manager
HmCall(t, o, p) ==
    /\ hpc[t] \in {"idle", "done"}
    /\ hcalls < MaxHmCalls
    /\ hcalls' = hcalls + 1
    /\ hop' = [hop EXCEPT ![t] = o]
    /\ harg' = [harg EXCEPT ![t] = p]
    /\ hkey' = [hkey EXCEPT ![t] = 0]
    /\ hres' = [hres EXCEPT ![t] = "none"]
    /\ hpc' = [hpc EXCEPT ![t] = "run"]
    /\ UNCHANGED <<pending_keypairs, sessions, pending_lock>>
    /\ UNCHANGED notManager

\* initiate_handshake, lines 76-84, and handle_hello_secure, lines 106-114:
\* a fresh keypair goes into pending_keypairs under the peer's id
HmInsertPending(t, kp) ==
    /\ hpc[t] = "run"
    /\ hop[t] \in {"initiate_handshake", "handle_hello_secure"}
    /\ pending_lock = 0
    /\ initiate_handshake(harg[t], kp)
    /\ hres' = [hres EXCEPT ![t] = "ok"]
    /\ hpc' = [hpc EXCEPT ![t] = "done"]
    /\ UNCHANGED <<sessions, hop, harg, hkey, pending_lock, hcalls>>
    /\ UNCHANGED notManager

\* HmTake that looks the keypair up and leaves it pending
HmTake_keep_pending(t) ==
    /\ hpc[t] = "run"
    /\ hop[t] \in {"complete_handshake", "finalize_handshake"}
    /\ pending_lock = 0
    /\ IF pending_keypairs[harg[t]] = 0
       THEN /\ hres' = [hres EXCEPT ![t] = "NoPendingHandshake"]
            /\ hpc' = [hpc EXCEPT ![t] = "done"]
            /\ UNCHANGED <<pending_keypairs, hkey, pending_lock>>
       ELSE /\ hkey' = [hkey EXCEPT ![t] = pending_keypairs[harg[t]]]
            /\ pending_lock' = t
            /\ hpc' = [hpc EXCEPT ![t] = "store"]
            /\ UNCHANGED <<pending_keypairs, hres>>
    /\ UNCHANGED <<sessions, hop, harg, hcalls>>
    /\ UNCHANGED notManager

\* HmTake that, finding nothing pending, drops the peer's session as well
HmTake_drop_session(t) ==
    /\ hpc[t] = "run"
    /\ hop[t] \in {"complete_handshake", "finalize_handshake"}
    /\ pending_lock = 0
    /\ IF pending_keypairs[harg[t]] = 0
       THEN /\ hres' = [hres EXCEPT ![t] = "NoPendingHandshake"]
            /\ hpc' = [hpc EXCEPT ![t] = "done"]
            /\ sessions' = [sessions EXCEPT ![harg[t]] = 0]
            /\ UNCHANGED <<pending_keypairs, hkey, pending_lock>>
       ELSE /\ pending_keypairs' = [pending_keypairs EXCEPT ![harg[t]] = 0]
            /\ hkey' = [hkey EXCEPT ![t] = pending_keypairs[harg[t]]]
            /\ pending_lock' = t
            /\ hpc' = [hpc EXCEPT ![t] = "store"]
            /\ UNCHANGED <<sessions, hres>>
    /\ UNCHANGED <<hop, harg, hcalls>>
    /\ UNCHANGED notManager

\* complete_handshake, lines 131-134, and finalize_handshake, lines 157-160:
\* lock pending_keypairs and take the peer's keypair out; without one the
\* call fails.  The guard lives to the end of the function.
HmTake(t) ==
    /\ hpc[t] = "run"
    /\ hop[t] \in {"complete_handshake", "finalize_handshake"}
    /\ pending_lock = 0
    /\ IF pending_keypairs[harg[t]] = 0
       THEN /\ hres' = [hres EXCEPT ![t] = "NoPendingHandshake"]
            /\ hpc' = [hpc EXCEPT ![t] = "done"]
            /\ UNCHANGED <<pending_keypairs, hkey, pending_lock>>
       ELSE /\ pending_keypairs' = [pending_keypairs EXCEPT ![harg[t]] = 0]
            /\ hkey' = [hkey EXCEPT ![t] = pending_keypairs[harg[t]]]
            /\ pending_lock' = t
            /\ hpc' = [hpc EXCEPT ![t] = "store"]
            /\ UNCHANGED <<hres>>
    /\ UNCHANGED <<sessions, hop, harg, hcalls>>
    /\ UNCHANGED notManager

\* complete_handshake, lines 137-145, and finalize_handshake, lines 163-171:
\* derive the session, lock sessions and store it; both guards drop at return
HmStore(t) ==
    /\ hpc[t] = "store"
    /\ sessions' = [sessions EXCEPT ![harg[t]] = hkey[t]]
    /\ pending_lock' = 0
    /\ hres' = [hres EXCEPT ![t] = "ok"]
    /\ hpc' = [hpc EXCEPT ![t] = "done"]
    /\ UNCHANGED <<pending_keypairs, hop, harg, hkey, hcalls>>
    /\ UNCHANGED notManager

\* get_session, lines 175-177, and has_session, lines 180-182
HmReadSession(t) ==
    /\ hpc[t] = "run"
    /\ hop[t] \in {"has_session", "get_session"}
    /\ hres' = [hres EXCEPT ![t] = IF sessions[harg[t]] # 0 THEN "some" ELSE "nothing"]
    /\ hpc' = [hpc EXCEPT ![t] = "done"]
    /\ UNCHANGED <<pending_keypairs, sessions, hop, harg, hkey, pending_lock, hcalls>>
    /\ UNCHANGED notManager

\* pending_count, lines 202-204
HmPendingCount(t) ==
    /\ hpc[t] = "run"
    /\ hop[t] = "pending_count"
    /\ pending_lock = 0
    /\ hres' = [hres EXCEPT ![t] =
                  IF \E d \in Devices : pending_keypairs[d] # 0 THEN "some" ELSE "nothing"]
    /\ hpc' = [hpc EXCEPT ![t] = "done"]
    /\ UNCHANGED <<pending_keypairs, sessions, hop, harg, hkey, pending_lock, hcalls>>
    /\ UNCHANGED notManager

\* remove_session, line 186: the sessions critical section
HmRemoveSession(t) ==
    /\ hpc[t] = "run"
    /\ hop[t] = "remove_session"
    /\ sessions' = [sessions EXCEPT ![harg[t]] = 0]
    /\ hpc' = [hpc EXCEPT ![t] = "remove_pending"]
    /\ UNCHANGED <<pending_keypairs, hop, harg, hkey, hres, pending_lock, hcalls>>
    /\ UNCHANGED notManager

\* remove_session, line 187: the pending_keypairs critical section
HmRemovePending(t) ==
    /\ hpc[t] = "remove_pending"
    /\ pending_lock = 0
    /\ pending_keypairs' = [pending_keypairs EXCEPT ![harg[t]] = 0]
    /\ hres' = [hres EXCEPT ![t] = "ok"]
    /\ hpc' = [hpc EXCEPT ![t] = "done"]
    /\ UNCHANGED <<sessions, hop, harg, hkey, pending_lock, hcalls>>
    /\ UNCHANGED notManager

NextManager ==
    \/ \E t \in Threads, o \in HmOps, p \in Devices : HmCall(t, o, p)
    \/ \E t \in Threads, kp \in ConnIds : HmInsertPending(t, kp)
    \/ \E t \in Threads : HmTake(t)
    \/ \E t \in Threads : HmStore(t)
    \/ \E t \in Threads : HmReadSession(t)
    \/ \E t \in Threads : HmPendingCount(t)
    \/ \E t \in Threads : HmRemoveSession(t)
    \/ \E t \in Threads : HmRemovePending(t)

\* ================================ crypto/: sessions, messages, streams
\* Two devices as in mod.rs test_full_encryption_workflow: alice_manager
\* dials, bob_manager answers.  Each manager knows the other as its only
\* peer, so its pending_keypairs and sessions maps have one slot.
NSecrets == 3        \* values OsRng can give an EphemeralSecret
MaxFlows == 2        \* handshakes alice starts in one run

Secrets == 1..NSecrets

\* X25519 as exponentiation in a small prime field: PublicKey::from(&secret)
\* is BasePoint^secret, diffie_hellman(public) is public^secret.
GroupPrime == 23
BasePoint == 5

RECURSIVE Pow(_, _)
Pow(b, e) == IF e = 0 THEN 1 ELSE (b * Pow(b, e - 1)) % GroupPrime

\* Keypair::generate and public_bytes, session.rs lines 33-43
public_bytes(secret) == Pow(BasePoint, secret)

diffie_hellman(our_secret, peer_public) == Pow(peer_public, our_secret)

\* Hkdf::<Sha256>::new(None, shared_secret).expand(info): a value that
\* depends on both arguments and on nothing else
hkdf_expand(shared_secret, info) == <<"hkdf", shared_secret, info>>

\* Session::derive_keys, session.rs lines 68-82
derive_keys(shared_secret) ==
    [message_key |-> hkdf_expand(shared_secret, "msg-key"),
     file_key |-> hkdf_expand(shared_secret, "file-key")]

\* ECDH with the own public key instead of the peer's
from_ecdh_own_public(our_secret, peer_public) ==
    LET shared_secret == diffie_hellman(our_secret, public_bytes(our_secret))
    IN  [shared_secret |-> shared_secret,
         message_key |-> derive_keys(shared_secret).message_key,
         file_key |-> derive_keys(shared_secret).file_key]

\* Session::from_ecdh, session.rs lines 52-65
from_ecdh(our_secret, peer_public) ==
    LET shared_secret == diffie_hellman(our_secret, peer_public)
    IN  [shared_secret |-> shared_secret,
         message_key |-> derive_keys(shared_secret).message_key,
         file_key |-> derive_keys(shared_secret).file_key]

NoSession == [shared_secret |-> 0, message_key |-> <<>>, file_key |-> <<>>]

\* HandshakeManager::new, handshake.rs lines 57-62
NewManager == [pending |-> 0, session |-> NoSession]

\* ---- message_crypto.rs and Session::{encrypt,decrypt}_message
NNonces == 2         \* values OsRng can give a 96-bit nonce
NTexts == 2          \* different strings of one length

\* crypto/mod.rs line 72
MAX_MESSAGE_SIZE == 1048576

Nonces == 1..NNonces

\* A byte string is its length and its content; a &str is a byte string
\* that is valid UTF-8 (content <<"utf8", text>>).
Bytes(len, val) == [len |-> len, val |-> val]

Lengths == {0, 1, MAX_MESSAGE_SIZE, MAX_MESSAGE_SIZE + 1}

Strings ==
    {[len |-> 0, text |-> 0]}
        \cup {[len |-> l, text |-> x] : l \in Lengths \ {0}, x \in 1..NTexts}

NoString == [len |-> 0, text |-> 0]

as_bytes(str) == Bytes(str.len, <<"utf8", str.text>>)

OkText(val) == [ok |-> TRUE, val |-> val, err |-> "", detail |-> ""]
ErrText(err, detail) == [ok |-> FALSE, val |-> NoString, err |-> err, detail |-> detail]

\* String::from_utf8
from_utf8(bytes) ==
    IF Len(bytes.val) = 2 /\ bytes.val[1] = "utf8"
    THEN OkText([len |-> bytes.len, text |-> bytes.val[2]])
    ELSE ErrText("Invalid UTF-8 in decrypted message", "")

\* Aes256Gcm: the CTR part gives as many bytes as the plaintext has, the
\* tag authenticates key, nonce and those bytes.
gcm_payload(key, nonce, plaintext) ==
    Bytes(plaintext.len, <<"ctr", key, nonce, plaintext.val>>)

gcm_tag(key, nonce, payload) == Bytes(16, <<"gmac", key, nonce, payload>>)

\* Session::encrypt_message, session.rs lines 87-115, `nonce` being what
\* OsRng.fill_bytes gave
session_encrypt_message(session, plaintext, nonce) ==
    LET payload == gcm_payload(session.message_key, nonce, plaintext)
    IN  [payload |-> payload,
         nonce |-> Bytes(12, nonce),
         tag |-> gcm_tag(session.message_key, nonce, payload)]

\* cipher.decrypt gives the plaintext when the tag is the one of this
\* key, nonce and payload
Authentic(key, encrypted) ==
    encrypted.tag = gcm_tag(key, encrypted.nonce.val, encrypted.payload)

\* the CTR part of cipher.decrypt: the plaintext of an intact payload
ctr_plaintext(payload) ==
    IF Len(payload.val) = 4
    THEN Bytes(payload.len, payload.val[4])
    ELSE Bytes(payload.len, <<"garbage">>)

\* decryption that uses the file key
session_decrypt_message_file_key(session, encrypted) ==
    IF Authentic(session.file_key, encrypted)
    THEN [ok |-> TRUE, val |-> ctr_plaintext(encrypted.payload)]
    ELSE [ok |-> FALSE, val |-> Bytes(0, <<>>)]

\* decryption that does not verify the tag
session_decrypt_message_unverified(session, encrypted) ==
    [ok |-> TRUE, val |-> ctr_plaintext(encrypted.payload)]

\* Session::decrypt_message, session.rs lines 120-135
session_decrypt_message(session, encrypted) ==
    IF Authentic(session.message_key, encrypted)
    THEN [ok |-> TRUE, val |-> ctr_plaintext(encrypted.payload)]
    ELSE [ok |-> FALSE, val |-> Bytes(0, <<>>)]

\* base64: STANDARD.encode gives a string that decodes to the same bytes;
\* other strings do not decode
Encode(bytes) == [b64 |-> TRUE, bytes |-> bytes]

NoField == Encode(Bytes(0, <<>>))

\* EncryptedMessagePayload::from_encrypted and its serialisation,
\* message_crypto.rs lines 10-32 and 110-156
from_encrypted(encrypted) ==
    [iv |-> Encode(encrypted.nonce),
     tag |-> Encode(encrypted.tag),
     payload |-> Encode(encrypted.payload)]

NoEnvelope == [iv |-> NoField, tag |-> NoField, payload |-> NoField]

\* message_crypto::encrypt_message, lines 51-58: every &str is encrypted
encrypt_message(session, message_json, nonce) ==
    [ok |-> TRUE,
     val |-> from_encrypted(session_encrypt_message(session,
                                as_bytes(message_json), nonce)),
     err |-> ""]

\* base64_serde::deserialize::<N>, lines 121-142, "" when it succeeds
DeserializeArray(field, n) ==
    IF ~field.b64 THEN "base64 decode error"
    ELSE IF field.bytes.len # n THEN "Invalid length"
    ELSE ""

\* serde_json::from_slice::<EncryptedMessagePayload>, server.rs lines 328-329
DeserializeError(envelope) ==
    IF DeserializeArray(envelope.iv, 12) # "" THEN DeserializeArray(envelope.iv, 12)
    ELSE IF DeserializeArray(envelope.tag, 16) # ""
    THEN DeserializeArray(envelope.tag, 16)
    ELSE IF ~envelope.payload.b64 THEN "base64 decode error"
    ELSE ""

\* EncryptedMessagePayload::to_encrypted, lines 35-41
to_encrypted(envelope) ==
    [payload |-> envelope.payload.bytes,
     nonce |-> envelope.iv.bytes,
     tag |-> envelope.tag.bytes]

\* message_crypto::decrypt_message, lines 68-75
decrypt_message(session, envelope) ==
    LET plaintext == session_decrypt_message(session, to_encrypted(envelope))
    IN  IF ~plaintext.ok
        THEN ErrText("Decryption failed - authentication tag mismatch", "")
        ELSE from_utf8(plaintext.val)

NoMsg == [stage |-> "none", from |-> "alice", sent |-> NoString,
          encrypted |-> "", envelope |-> NoEnvelope,
          tamper |-> <<"none", "none">>,
          out |-> OkText(NoString), events |-> {}]

\* ---- stream_crypto.rs and Session::create_file_{encryptor,decryptor}
MaxData == 3         \* longest file, in bytes
NIvs == 2            \* values OsRng can give a 128-bit IV
BufferSize == 2      \* buffer_size of the encryptor and of the decryptor

Ivs == 1..NIvs

\* bytes of one bit
Datas == UNION {[1..n -> {0, 1}] : n \in 0..MaxData}

\* Ctr128BE<Aes256>: byte `i` of the key stream of (file_key, iv); the
\* cipher is the number of key stream bytes it has used.  enc_reads and
\* dec_reads count the reads that gave bytes.
keystream(file_key, iv, i) == (file_key[2] + iv + i) % 2

\* a cipher that starts the key stream anew with every buffer
apply_from_start(file_key, iv, position, buffer) ==
    [i \in 1..Len(buffer) |-> (buffer[i] + keystream(file_key, iv, i)) % 2]

\* FileStreamCipher::apply, session.rs lines 177-183 (apply_keystream)
apply(file_key, iv, position, buffer) ==
    [i \in 1..Len(buffer) |->
        (buffer[i] + keystream(file_key, iv, position + i)) % 2]

NoStream == [stage |-> "none", data |-> <<>>, iv |-> 0,
             enc |-> 0, enc_reads |-> 0, enc_total |-> -1, wire |-> <<>>,
             dec |-> 0, dec_reads |-> 0, dec_total |-> -1, out |-> <<>>]

\* ---- the handshake between the two managers
\* `hello` is the HELLO_SECURE public key from the moment alice sends it
\* until bob's handler has used it for finalize_handshake; `response` is
\* the HELLO_RESPONSE public key until alice has read it.
InitHandshake ==
    hsk = [alice |-> NewManager, bob |-> NewManager, hello |-> 0,
           response |-> 0, flows |-> 0]

\* initiate_handshake, handshake.rs lines 68-93, called by
\* perform_handshake (client.rs line 285) once per connection: what went
\* over the previous connection is gone
alice_initiate_handshake(secret) ==
    /\ hsk.hello = 0
    /\ hsk.response = 0
    /\ hsk.flows < MaxFlows
    /\ msg.stage # "sent"
    /\ hsk' = [hsk EXCEPT !.alice.pending = secret,
                          !.hello = public_bytes(secret),
                          !.flows = @ + 1]
    /\ msg' = NoMsg
    /\ strm' = NoStream
    /\ UNCHANGED notCrypto

\* handle_hello_secure, handshake.rs lines 98-124, called by the server's
\* handler on the HELLO_SECURE frame (server.rs line 210)
bob_handle_hello_secure(secret) ==
    /\ hsk.hello # 0
    /\ hsk.response = 0
    /\ hsk.bob.pending = 0
    /\ hsk' = [hsk EXCEPT !.bob.pending = secret,
                          !.response = public_bytes(secret)]
    /\ UNCHANGED <<msg, strm>>
    /\ UNCHANGED notCrypto

\* complete_handshake, handshake.rs lines 129-146: without a pending
\* keypair it fails and changes nothing
complete_handshake(manager, response) ==
    IF manager.pending = 0
    THEN manager
    ELSE [pending |-> 0, session |-> from_ecdh(manager.pending, response)]

\* finalize_handshake, handshake.rs lines 151-172
finalize_handshake(manager, peer_public_key) ==
    IF manager.pending = 0
    THEN manager
    ELSE [pending |-> 0,
          session |-> from_ecdh(manager.pending, peer_public_key)]

\* perform_handshake after it has read HELLO_RESPONSE, client.rs line 324
alice_complete_handshake ==
    /\ hsk.response # 0
    /\ hsk' = [hsk EXCEPT !.alice = complete_handshake(@, hsk.response),
                          !.response = 0]
    /\ UNCHANGED <<msg, strm>>
    /\ UNCHANGED notCrypto

\* the server's handler after it has sent HELLO_RESPONSE, server.rs line 234
bob_finalize_handshake ==
    /\ hsk.hello # 0
    /\ hsk.bob.pending # 0
    /\ hsk' = [hsk EXCEPT !.bob = finalize_handshake(@, hsk.hello),
                          !.hello = 0]
    /\ UNCHANGED <<msg, strm>>
    /\ UNCHANGED notCrypto

\* both sides have finished the last handshake that was started
Established ==
    /\ hsk.flows > 0
    /\ hsk.hello = 0
    /\ hsk.response = 0

NextHandshake ==
    \/ \E secret \in Secrets : alice_initiate_handshake(secret)
    \/ \E secret \in Secrets : bob_handle_hello_secure(secret)
    \/ alice_complete_handshake
    \/ bob_finalize_handshake

Sides == {"alice", "bob"}

Peer(side) == IF side = "alice" THEN "bob" ELSE "alice"

\* send_encrypted_message, client.rs lines 369-377: the session of the
\* connection encrypts the JSON text; `encrypted` is the error text of
\* encrypt_message ("": Ok), with which line 377 returns
EncSend(side, message_json, nonce) ==
    /\ Established
    /\ msg.stage # "sent"
    /\ LET encrypted == encrypt_message(hsk[side].session, message_json, nonce)
       IN  msg' = [NoMsg EXCEPT
                       !.stage = IF encrypted.ok THEN "sent" ELSE "rejected",
                       !.from = side,
                       !.sent = message_json,
                       !.encrypted = encrypted.err,
                       !.envelope = encrypted.val]
    /\ UNCHANGED <<hsk, strm>>
    /\ UNCHANGED notCrypto

Fields == {"iv", "tag", "payload"}

\* what the network can do to one field of the envelope: change one byte,
\* replace the base64 text by text that does not decode, drop the last byte
Tampered(f, field, how, nonce) ==
    CASE how = "flip" /\ f = "iv" ->
            [field EXCEPT !.bytes.val = nonce]
      [] how = "flip" ->
            [field EXCEPT !.bytes.val = <<"flipped", @>>]
      [] how = "garble" ->
            [field EXCEPT !.b64 = FALSE]
      [] how = "cut" ->
            [field EXCEPT !.bytes.len = @ - 1, !.bytes.val = <<"cut", @>>]

Tamper(f, how, nonce) ==
    /\ msg.stage = "sent"
    /\ msg.tamper = <<"none", "none">>
    /\ how \in {"flip", "cut"} => msg.envelope[f].bytes.len > 0
    /\ how = "flip" /\ f = "iv" => nonce # msg.envelope.iv.bytes.val
    /\ msg' = [msg EXCEPT !.tamper = <<f, how>>,
                          !.envelope[f] = Tampered(f, @, how, nonce)]
    /\ UNCHANGED <<hsk, strm>>
    /\ UNCHANGED notCrypto

\* handle_encrypted_message up to the decrypted text, server.rs lines
\* 320-347, with the session of the receiving side
EncReceive ==
    /\ msg.stage = "sent"
    /\ LET error == DeserializeError(msg.envelope)
           plaintext_json == decrypt_message(hsk[Peer(msg.from)].session,
                                             msg.envelope)
       IN  IF error # ""
           THEN msg' = [msg EXCEPT !.stage = "received",
                            !.out = ErrText("Invalid encrypted message", error)]
           ELSE IF ~plaintext_json.ok
           THEN msg' = [msg EXCEPT !.stage = "received",
                            !.out = ErrText("Decryption failed", plaintext_json.err),
                            !.events = {"security-error"}]
           ELSE msg' = [msg EXCEPT !.stage = "received",
                            !.out = plaintext_json]
    /\ UNCHANGED <<hsk, strm>>
    /\ UNCHANGED notCrypto

NextMessage ==
    \/ \E side \in Sides, message_json \in Strings, nonce \in Nonces :
          EncSend(side, message_json, nonce)
    \/ \E f \in Fields, how \in {"flip", "garble", "cut"}, nonce \in Nonces :
          Tamper(f, how, nonce)
    \/ EncReceive

\* ---- the stream between the two devices
\* StreamEncryptor::new, lines 51-58, with alice's session, and
\* StreamDecryptor::new, lines 148-154, with bob's session and the IV of
\* FILE_STREAM_INIT (server.rs line 409); `data` is the file to send
StreamNew(data, iv) ==
    /\ Established
    /\ strm.stage \in {"none", "done"}
    /\ strm' = [NoStream EXCEPT !.stage = "streaming", !.data = data, !.iv = iv]
    /\ UNCHANGED <<hsk, msg>>
    /\ UNCHANGED notCrypto

\* encrypt_chunk, lines 68-97, inside the loop of encrypt_stream, lines
\* 107-132: the reader gives `n` bytes, 0 at the end of the file only
encrypt_chunk(n) ==
    /\ strm.stage = "streaming"
    /\ strm.enc_total = -1
    /\ n <= Len(strm.data) - strm.enc
    /\ n = 0 <=> strm.enc = Len(strm.data)
    /\ IF n = 0
       THEN strm' = [strm EXCEPT !.enc_total = strm.enc]
       ELSE strm' = [strm EXCEPT
                !.enc = @ + n,
                !.enc_reads = @ + 1,
                !.wire = @ \o apply(hsk.alice.session.file_key, strm.iv, strm.enc,
                                    SubSeq(strm.data, strm.enc + 1, strm.enc + n))]
    /\ UNCHANGED <<hsk, msg>>
    /\ UNCHANGED notCrypto

\* decrypt_chunk, lines 164-193, inside the loop of decrypt_stream, lines
\* 203-228: the reader gives `n` bytes of what was written, 0 once the
\* writer has finished and everything was read
decrypt_chunk(n) ==
    /\ strm.stage = "streaming"
    /\ strm.dec_total = -1
    /\ n <= Len(strm.wire) - strm.dec
    /\ n = 0 <=> (strm.enc_total # -1 /\ strm.dec = Len(strm.wire))
    /\ IF n = 0
       THEN strm' = [strm EXCEPT !.dec_total = strm.dec, !.stage = "done"]
       ELSE strm' = [strm EXCEPT
                !.dec = @ + n,
                !.dec_reads = @ + 1,
                !.out = @ \o apply(hsk.bob.session.file_key, strm.iv, strm.dec,
                                   SubSeq(strm.wire, strm.dec + 1, strm.dec + n))]
    /\ UNCHANGED <<hsk, msg>>
    /\ UNCHANGED notCrypto

NextStream ==
    \/ NextHandshake
    \/ \E data \in Datas, iv \in Ivs : StreamNew(data, iv)
    \/ \E n \in 0..BufferSize : encrypt_chunk(n)
    \/ \E n \in 0..BufferSize : decrypt_chunk(n)

InitCrypto ==
    /\ InitHandshake
    /\ msg = NoMsg
    /\ strm = NoStream

NextCrypto ==
    \/ NextHandshake
    \/ NextMessage

\* The handshake and pool steps of get_connection, and the peer
DialSteps ==
    \/ \E t \in Tasks : GcCheck(t)
    \/ \E t \in Tasks, ok \in BOOLEAN : GcDial(t, ok)
    \/ \E t \in Tasks : HsSend(t)
    \/ \E t \in Tasks, r \in Responses : HsRead(t, r)
    \/ \E t \in Tasks : GcInsert(t)
    \/ \E c \in ConnIds : PeerClose(c)

\* Concurrent callers of get_connection
NextDial ==
    \/ \E t \in Tasks, d \in Devices : Call(t, "get_connection", d, "FileRequest")
    \/ DialSteps

\* Callers of send_frame and send_text_message
NextSend ==
    \/ \E t \in Senders, o \in {"send_frame", "send_text_message"},
          d \in Devices, ty \in BuilderTypes : Call(t, o, d, ty)
    \/ DialSteps
    \/ \E t \in Tasks, utf8 \in BOOLEAN : StHas(t, utf8)
    \/ \E t \in Tasks : SeSession(t)
    \/ \E t \in Tasks : SfWrite(t)
    \/ \E t \in Tasks : SfEvict(t)

\* --------------------------------------------- protocol.rs: frame codec
MaxPayload == 2      \* longest payload of a frame that is written whole

\* MAX_PAYLOAD_SIZE: 100 * 1024 * 1024
MAX_PAYLOAD_SIZE == 104857600

\* the byte values payloads are made of
PayloadBytes == {0, 255}

Payloads == UNION {[1..n -> PayloadBytes] : n \in 0..MaxPayload}

\* `message_type as u8`: the discriminants of #[repr(u8)] enum MessageType
as_u8(message_type) ==
    CASE message_type = "Hello" -> 1
      [] message_type = "TextMessage" -> 2
      [] message_type = "FileRequest" -> 3
      [] message_type = "FileData" -> 4
      [] message_type = "FileAck" -> 5
      [] message_type = "FileComplete" -> 6
      [] message_type = "FileCancel" -> 7
      [] message_type = "FileReject" -> 8
      [] message_type = "Heartbeat" -> 9
      [] message_type = "Error" -> 10
      [] message_type = "HelloSecure" -> 16
      [] message_type = "HelloResponse" -> 17
      [] message_type = "EncryptedMessage" -> 18
      [] message_type = "FileStreamInit" -> 19

\* a from_u8 that turns every byte into some message type
from_u8_total(value) ==
    IF \E ty \in MessageType : as_u8(ty) = value
    THEN CHOOSE ty \in MessageType : as_u8(ty) = value
    ELSE "Error"

\* MessageType::from_u8: "None" for a byte that is no message type
from_u8(value) ==
    CASE value = 1 -> "Hello"
      [] value = 2 -> "TextMessage"
      [] value = 3 -> "FileRequest"
      [] value = 4 -> "FileData"
      [] value = 5 -> "FileAck"
      [] value = 6 -> "FileComplete"
      [] value = 7 -> "FileCancel"
      [] value = 8 -> "FileReject"
      [] value = 9 -> "Heartbeat"
      [] value = 10 -> "Error"
      [] value = 16 -> "HelloSecure"
      [] value = 17 -> "HelloResponse"
      [] value = 18 -> "EncryptedMessage"
      [] value = 19 -> "FileStreamInit"
      [] OTHER -> "None"

\* u32::to_be_bytes and u32::from_be_bytes
to_be_bytes(n) ==
    <<(n \div 16777216) % 256, (n \div 65536) % 256, (n \div 256) % 256, n % 256>>

from_be_bytes(b) == b[1] * 16777216 + b[2] * 65536 + b[3] * 256 + b[4]

\* Frame::new with the payload bytes (Frame above keeps the type only)
Frame_new(message_type, payload) ==
    [message_type |-> message_type, payload |-> payload]

NoDecoded == [message_type |-> "None", payload |-> <<>>]

\* Frame::encode.  `payload.len() as u32` is the length itself for every
\* payload shorter than 2^32 bytes, as all payloads here are.
Frame_encode(f) ==
    LET payload_len == Len(f.payload)
    IN  to_be_bytes(payload_len) \o <<as_u8(f.message_type)>> \o f.payload

\* The io::Result of decode, with the number of bytes of the reader that
\* the read_exact calls which returned Ok have consumed.
DecodeOk(f, n) == [ok |-> TRUE, frame |-> f, err |-> "", consumed |-> n]
DecodeErr(e, n) == [ok |-> FALSE, frame |-> NoDecoded, err |-> e, consumed |-> n]
NoResult == [ok |-> FALSE, frame |-> NoDecoded, err |-> "", consumed |-> 0]

\* a decode without the payload length validation
Frame_decode_unvalidated(reader) ==
    IF Len(reader) < 4 THEN DecodeErr("UnexpectedEof", 0)
    ELSE LET payload_len == from_be_bytes(SubSeq(reader, 1, 4))
         IN  IF Len(reader) < 5 THEN DecodeErr("UnexpectedEof", 4)
             ELSE IF from_u8(reader[5]) = "None"
                  THEN DecodeErr("Invalid message type", 5)
             ELSE IF Len(reader) < 5 + payload_len
                  THEN DecodeErr("UnexpectedEof", 5)
             ELSE DecodeOk(Frame_new(from_u8(reader[5]),
                                     SubSeq(reader, 6, 5 + payload_len)),
                           5 + payload_len)

\* Frame::decode and Frame::decode_async (the same steps, awaited): read
\* the length, validate it, read the type byte, read the payload.
Frame_decode(reader) ==
    IF Len(reader) < 4 THEN DecodeErr("UnexpectedEof", 0)
    ELSE LET payload_len == from_be_bytes(SubSeq(reader, 1, 4))
         IN  IF payload_len > MAX_PAYLOAD_SIZE
             THEN DecodeErr("Payload too large", 4)
             ELSE IF Len(reader) < 5 THEN DecodeErr("UnexpectedEof", 4)
             ELSE IF from_u8(reader[5]) = "None"
                  THEN DecodeErr("Invalid message type", 5)
             ELSE IF Len(reader) < 5 + payload_len
                  THEN DecodeErr("UnexpectedEof", 5)
             ELSE DecodeOk(Frame_new(from_u8(reader[5]),
                                     SubSeq(reader, 6, 5 + payload_len)),
                           5 + payload_len)

\* Length fields a peer may send: within the payloads of the model, the
\* limit itself, just above it and far above it.  Their top bit is clear,
\* so that the u32 stays within the integers of the model checker.
LengthFields ==
    {to_be_bytes(n) : n \in 0..MaxPayload}
        \cup {to_be_bytes(MAX_PAYLOAD_SIZE), to_be_bytes(MAX_PAYLOAD_SIZE + 1),
              <<127, 255, 255, 0>>}

\* Type bytes a peer may send: around both ranges of the enum
TypeBytes == {0, 1, 10, 11, 15, 16, 19, 20, 255}

NoCodec == [op |-> "none", stream |-> <<>>, result |-> NoResult]

InitCodec == codec = NoCodec

\* Frame::write_async: the encoded frame is written whole
write_async(message_type, payload) ==
    /\ codec.op = "none"
    /\ codec' = [codec EXCEPT !.op = "written",
                   !.stream = Frame_encode(Frame_new(message_type, payload))]
    /\ UNCHANGED notCodec

\* The remote end writes a header and bytes of its own choosing
PeerWrite(len, type_byte, payload) ==
    /\ codec.op = "none"
    /\ codec' = [codec EXCEPT !.op = "written",
                   !.stream = len \o <<type_byte>> \o payload]
    /\ UNCHANGED notCodec

\* The stream ends after its first n bytes (the connection is closed)
StreamEnd(n) ==
    /\ codec.op = "written"
    /\ n < Len(codec.stream)
    /\ codec' = [codec EXCEPT !.op = "ended",
                   !.stream = SubSeq(codec.stream, 1, n)]
    /\ UNCHANGED notCodec

\* Frame::decode on the stream
decode ==
    /\ codec.op \in {"written", "ended"}
    /\ codec' = [codec EXCEPT !.op = "decoded",
                   !.result = Frame_decode(codec.stream)]
    /\ UNCHANGED notCodec

NextCodec ==
    \/ \E ty \in MessageType, payload \in Payloads : write_async(ty, payload)
    \/ \E len \in LengthFields, tb \in TypeBytes, payload \in Payloads :
          PeerWrite(len, tb, payload)
    \/ \E n \in 0..(4 + MaxPayload) : StreamEnd(n)
    \/ decode

Init ==
    /\ InitClient /\ InitServer /\ InitEngine /\ InitManager /\ InitCrypto
    /\ InitCodec

SpecDial == Init /\ [][NextDial]_vars

SpecSend == Init /\ [][NextSend]_vars

SpecServer == Init /\ [][NextServer]_vars

SpecEngine == Init /\ [][NextEngine]_vars

SpecManager == Init /\ [][NextManager]_vars

SpecSender == Init /\ [][NextSender]_vars

SpecReceiver == Init /\ [][NextReceiver]_vars

SpecService == Init /\ [][NextService]_vars

SpecCrypto == Init /\ [][NextCrypto]_vars

SpecStream == Init /\ [][NextStream]_vars

SpecCodec == Init /\ [][NextCodec]_vars

\* ------------------------------------------------------------ properties
Created == 1..nConns

Pooled(c) == \E d \in Devices : connections[d] = c

WireTypes(c) == {conns[c].wire[i].type : i \in 1..Len(conns[c].wire)}

StartsSecure(c) == Len(conns[c].wire) >= 1 /\ conns[c].wire[1].type = "HelloSecure"

\* the call of task t has returned
Returned(t) == pc[t] = "done"

\* C1 (as claimed): while no entry has been evicted, the callers of
\* get_connection for one device cause at most one TCP connect and one
\* handshake, and all of them are handed the same connection.
C1_SingleDial ==
    ~evicted =>
      \A d \in Devices :
        /\ Cardinality({c \in Created : conns[c].device_id = d}) <= 1
        /\ Cardinality({c \in Created : conns[c].device_id = d
                                         /\ conns[c].hs # "none"}) <= 1
        /\ \A t, u \in Tasks :
             (/\ Returned(t) /\ Returned(u)
              /\ op[t] = "get_connection" /\ op[u] = "get_connection"
              /\ result[t] = "ok" /\ result[u] = "ok"
              /\ dev[t] = d /\ dev[u] = d) => conn[t] = conn[u]

\* write attempts of the send_frame call running (or finished) in task t
WriteAttempts(t) ==
    Cardinality({i \in 1..Len(tries[t]) : tries[t][i] \in {"ok", "write_failed"}})

\* C2: one send_frame tries at most twice and evicts at most once; it evicts
\* and tries again exactly when the first try failed; the outcome of the
\* second try is what the caller gets, and no third try is made.
C2_AtMostOneRetry ==
    \A t \in Tasks :
      /\ Len(tries[t]) <= 2
      /\ WriteAttempts(t) <= 2
      /\ nEvicts[t] <= 1
      /\ nEvicts[t] = 1 => (Len(tries[t]) >= 1 /\ tries[t][1] # "ok")
      /\ Len(tries[t]) = 2 => nEvicts[t] = 1
      /\ (Returned(t) /\ tries[t] # <<>>) =>
           /\ tries[t][1] = "ok" => (tries[t] = <<"ok">> /\ nEvicts[t] = 0
                                      /\ result[t] = "ok")
           /\ tries[t][1] # "ok" => (Len(tries[t]) = 2 /\ nEvicts[t] = 1)
           /\ Len(tries[t]) = 2 =>
                (result[t] = "ok" <=> tries[t][2] = "ok")
           /\ (Len(tries[t]) = 2 /\ tries[t][2] # "ok") =>
                result[t] \in {"SendFailed", "ConnectFailed"}

C2_Witness ==
    \E t \in Tasks :
      /\ Returned(t)
      /\ tries[t] = <<"write_failed", "write_failed">>
      /\ nEvicts[t] = 1
      /\ result[t] = "SendFailed"

\* C3: a send_text_message of a valid message that finds the pooled
\* connection closed, with the peer reachable and nothing else interfering,
\* fails its first write, evicts the stale entry, dials once with one
\* handshake, writes the message on the new pooled connection and returns Ok.
StaleRetry(t) ==
    /\ Returned(t)
    /\ op[t] = "send_text_message"
    /\ stale[t] # 0
    /\ ~disturbed[t]
    /\ result[t] # "InvalidUtf8"

C3_StaleRetry ==
    \A t \in Tasks :
      StaleRetry(t) =>
        /\ result[t] = "ok"
        /\ tries[t] = <<"write_failed", "ok">>
        /\ nEvicts[t] = 1
        /\ nHs[t] = 1
        /\ conn[t] # stale[t]
        /\ connections[dev[t]] = conn[t]
        /\ conns[conn[t]].wire[Len(conns[conn[t]].wire)] = frame[t]
        /\ frame[t].type \in {"TextMessage", "EncryptedMessage"}

C3_Witness ==
    \E t \in Tasks :
      /\ StaleRetry(t)
      /\ result[t] = "ok"
      /\ conns[stale[t]].session # 0
      /\ frame[t].type = "EncryptedMessage"

\* C6 (as claimed): a connection on which the client read something else
\* than HELLO_RESPONSE is never pooled and carries no frame after HELLO_SECURE.
C6_UnexpectedResponseFatal ==
    \A c \in Created :
      conns[c].hs = "unexpected_type" =>
        (~Pooled(c) /\ Len(conns[c].wire) = 1)

\* events that hand a message or a file-transfer notification to the
\* application
RoutedEvents == {"message-received", "file-request-received",
                 "transfer-progress", "transfer-completed", "file-cancelled",
                 "file-rejected"}

PlaintextTypes == {"Hello", "TextMessage", "FileRequest", "FileData", "FileAck",
                   "FileComplete", "FileCancel", "FileReject", "Heartbeat",
                   "Error"}

\* transfer tasks inside perform_transfer
Running == {id \in TransferIds : task[id] = "running"}

\* C4 (as claimed): whatever the interleaving of start_transfer calls, no
\* more than 3 transfer tasks run at the same time, and the counter the
\* admission check reads never exceeds 3.
C4_AtMostThreeRunning ==
    /\ Cardinality(Running) <= MAX_CONCURRENT_TRANSFERS
    /\ active_transfers <= MAX_CONCURRENT_TRANSFERS

\* C5 (as claimed): on a connection that starts with HELLO_SECURE the client
\* has read exactly one HELLO_RESPONSE before the connection is in the pool
\* or carries an ENCRYPTED_MESSAGE, and the server has written its
\* HELLO_RESPONSE before it handles any further frame.
C5_HandshakeOrder ==
    /\ \A c \in Created :
         (StartsSecure(c) /\ (Pooled(c) \/ "EncryptedMessage" \in WireTypes(c)))
            => conns[c].helloResp = 1
    /\ server.last.in \in {"encrypted", "file_stream"} => server.response = 1
    /\ server.state \in {"encrypted", "file_stream"} => server.response = 1

\* C7 (as claimed): the plaintext loop is entered only on a first frame of a
\* plaintext type; a first frame that is neither HELLO_SECURE nor of a
\* plaintext type closes the connection and nothing more is handled.
C7_PlaintextLoopEntry ==
    /\ (server.last.in = "await_first" /\ server.state = "plaintext")
          => server.last.frame.type \in PlaintextTypes
    /\ (server.last.in = "await_first"
        /\ server.last.frame.type \notin PlaintextTypes \cup {"HelloSecure"})
          => server.state = "closed"

\* C8: a frame read in the encrypted session whose type is not
\* ENCRYPTED_MESSAGE, FILE_STREAM_INIT or HEARTBEAT ends the connection as a
\* protocol violation, and no message or file event is emitted for it.
C8_ProtocolViolation ==
    (/\ server.last.in = "encrypted"
     /\ server.last.frame.type \notin {"EncryptedMessage", "FileStreamInit",
                                       "Heartbeat"})
      => /\ server.state = "closed"
         /\ server.exit = "protocol_violation"
         /\ server.emitted \cap RoutedEvents = {}
         /\ "device-connected" \notin server.emitted

C8_Witness ==
    /\ server.last.in = "encrypted"
    /\ server.last.frame.type = "TextMessage"
    /\ server.last.frame.valid
    /\ server.state = "closed"
    /\ server.exit = "protocol_violation"

C10_DisconnectedForConnected ==
    server.state = "closed" => server.connected \subseteq server.disconnected

\* C11 (as claimed): wherever an established connection waits for the next
\* frame (session loop, plaintext loop, file-stream receive loop) the idle
\* timeout is armed, so a silent peer gets the connection closed.
C11_IdleTimeoutEverywhere ==
    server.state \in {"encrypted", "plaintext", "file_stream"}
        => ENABLED IdleTimeout

\* a thread is between the two halves of the move of peer p
MidMove(p) == \E t \in Threads : hpc[t] = "store" /\ harg[t] = p

\* C12: when complete_handshake or finalize_handshake returns Ok for a peer,
\* pending_keypairs has no entry for that peer and sessions has one.
C12_MoveOnCompletion ==
    [][\A t \in Threads :
         (hpc[t] = "store" /\ hpc'[t] = "done")
            => /\ hres'[t] = "ok"
               /\ pending_keypairs'[harg[t]] = 0
               /\ sessions'[harg[t]] # 0
               /\ sessions'[harg[t]] = hkey[t]]_vars

C12_Witness ==
    \E t \in Threads :
      /\ hpc[t] = "done"
      /\ hop[t] = "complete_handshake"
      /\ hres[t] = "ok"
      /\ sessions[harg[t]] # 0
      /\ pending_keypairs[harg[t]] = 0

\* C13 (as claimed): no has_session, get_session, pending_count or
\* remove_session call of another thread runs one of its critical sections
\* while a completing peer is out of pending_keypairs and not yet in sessions.
C13_AtomicMove ==
    [][\A u \in Threads :
         (/\ hpc'[u] # hpc[u]
          /\ hpc[u] \in {"run", "remove_pending"}
          /\ hop[u] \in {"has_session", "get_session", "pending_count",
                         "remove_session"})
            => IF hop[u] = "pending_count"
               THEN \A p \in Devices : ~MidMove(p)
               ELSE ~MidMove(harg[u])]_vars

\* C14: complete_handshake and finalize_handshake called with nothing pending
\* for the peer fail with the no-pending-handshake error and change neither
\* map.
C14_NoPendingHandshake ==
    [][\A t \in Threads :
         (/\ hpc[t] = "run" /\ hpc'[t] # "run"
          /\ hop[t] \in {"complete_handshake", "finalize_handshake"}
          /\ pending_keypairs[harg[t]] = 0)
            => /\ hres'[t] = "NoPendingHandshake"
               /\ hpc'[t] = "done"
               /\ UNCHANGED <<pending_keypairs, sessions>>]_vars

C14_Witness ==
    \E t \in Threads :
      /\ hpc[t] = "done"
      /\ hop[t] = "finalize_handshake"
      /\ hres[t] = "NoPendingHandshake"
      /\ \E d \in Devices : sessions[d] # 0

\* C15: a sender task that sees Paused or Cancelled at the check between
\* chunks ends without another frame: the wire is as long as it was at the
\* check and holds no FILE_COMPLETE, the task ends as a success, and the
\* transfer is marked neither Completed nor Failed.
C15_StopIsSilent ==
    sender.pc = "stopped"
        => /\ Len(sender.wire) = sender.stop_len
           /\ \A i \in 1..Len(sender.wire) : sender.wire[i].type # "FileComplete"
           /\ \A id \in Followed :
                 /\ task[id] \in {"ending", "done"}
                 /\ transfers[id] \in {"Paused", "Cancelled"}

C15_Witness ==
    /\ sender.pc = "stopped"
    /\ Len(sender.wire) > 1
    /\ \A id \in Followed : task[id] = "done" /\ transfers[id] = "Paused"

\* C16: a transfer whose status has been Cancelled is never InProgress
\* afterwards, whatever operations of the service follow.
C16_CancelledIsFinal ==
    \A id \in TransferIds : id \in was_cancelled => transfers[id] # "InProgress"

\* C17: handle_complete on a known transfer, whatever its status, leaves it
\* Completed exactly when the SHA-256 of the file at its file_path equals
\* payload.checksum (never, when it has no file_path), and Failed otherwise.
C17_CompletedIffChecksum ==
    [][/\ \A id \in TransferIds, checksum \in Digests :
             (/\ handle_complete(id, checksum)
              /\ transfers[id] # "absent"
              /\ table_lock' = "free")
                 => transfers'[id] = "Failed"
       /\ HcChecksum
             => transfers'[hc.id] =
                   IF Sha256(disk[hc.id]) = hc.checksum
                   THEN "Completed" ELSE "Failed"]_vars

\* C18: accept_transfer and reject_transfer act only on a transfer that is
\* AwaitingAcceptance (accept: destination path set, InProgress; reject:
\* Cancelled); on any other status or an unknown id they return an error
\* and leave the table as it was.
C18_OnlyAwaitingAcceptance ==
    [][\A id \in TransferIds :
          /\ (/\ ret'.op = "accept_transfer"
              /\ \E existing \in {NoFile} \cup Contents : accept_transfer(id, existing))
                => IF transfers[id] = "AwaitingAcceptance"
                   THEN /\ ret'.val = "ok"
                        /\ transfers'[id] = "InProgress"
                        /\ file_path'[id] = "dst"
                   ELSE /\ ret'.val = "err"
                        /\ UNCHANGED <<transfers, file_path, transferred>>
          /\ (ret'.op = "reject_transfer" /\ reject_transfer(id))
                => IF transfers[id] = "AwaitingAcceptance"
                   THEN /\ ret'.val = "ok"
                        /\ transfers'[id] = "Cancelled"
                   ELSE /\ ret'.val = "err"
                        /\ UNCHANGED <<transfers, file_path, transferred>>]_vars

C18_Witness ==
    /\ ret = Ret("accept_transfer", "err")
    /\ \E id \in Followed : transfers[id] = "Cancelled" /\ file_path[id] = "none"

\* C19: a chunk for a transfer that is not InProgress, or for an unknown
\* id, is dropped: the call returns an error, nothing is written, and
\* `transferred` and the status stay as they were.
C19_ChunkDropped ==
    [][\A id \in TransferIds :
          (/\ transfers[id] # "InProgress"
           /\ rc.pc = "idle"
           /\ rc' # rc \/ ret'.op = "receive_file_chunk"
           /\ \E offset \in 0..MaxFileSize, chunk_size \in 0..MaxChunk,
                 data \in Contents, valid \in BOOLEAN :
                 RcCheck(id, offset, chunk_size, data, valid))
              => /\ ret' = Ret("receive_file_chunk", "err")
                 /\ rc' = NoChunk
                 /\ UNCHANGED <<disk, transferred, transfers>>]_vars

C19_Witness ==
    /\ ret = Ret("receive_file_chunk", "err")
    /\ rc = NoChunk
    /\ \E id \in Followed : transfers[id] = "Paused" /\ file_path[id] = "dst"

\* the end of the bytes that the first n frames of the wire cover
Covered(n) ==
    IF n < 2 \/ sender.wire[n].type # "FileData" THEN 0
    ELSE sender.wire[n].offset + sender.wire[n].chunk_size

\* C20: perform_transfer sends one FILE_REQUEST first, then FILE_DATA frames
\* whose offsets start at 0 and continue each at the end of the one before,
\* and, once they cover the whole file, one FILE_COMPLETE with the checksum
\* of the FILE_REQUEST; the transfer is marked Completed only after that.
C20_SenderFrameOrder ==
    LET w == sender.wire
        n == Len(w)
    IN  /\ \A i \in 1..n :
              /\ w[i].type = "FileRequest" <=> i = 1
              /\ w[i].type = "FileData" =>
                    /\ w[i].offset = Covered(i - 1)
                    /\ w[i].chunk_size > 0
                    /\ Covered(i) <= sender.size
              /\ w[i].type = "FileComplete" =>
                    /\ i = n
                    /\ Covered(i - 1) = sender.size
                    /\ w[i].checksum = w[1].checksum
        /\ \A id \in Followed :
              (sender.pc = "finished" \/ transfers[id] = "Completed")
                  => n >= 2 /\ w[n].type = "FileComplete"

C20_Witness ==
    /\ sender.pc = "finished"
    /\ Len(sender.wire) >= 4
    /\ \A id \in Followed : transfers[id] = "Completed"

\* C21: every frame that send_text_message writes on a connection is an
\* ENCRYPTED_MESSAGE if the connection has a session and a plaintext
\* TEXT_MESSAGE only if the connection has no session.
C21_EncryptedIffSession ==
    \A c \in ConnIds : \A i \in 1..Len(conns[c].wire) :
        /\ conns[c].wire[i].type = "TextMessage" => conns[c].session = 0
        /\ conns[c].wire[i].type = "EncryptedMessage" => conns[c].session # 0

\* C22: once a close_connection has destroyed the pool entry of a peer and
\* no connection to that peer is in the pool and no call for it is running, the
\* session registry holds no session for the peer (has_session is false).
C22_SessionDiesWithConnection ==
    \A d \in Devices :
        (/\ evicted
         /\ connections[d] = 0
         /\ \A t \in Tasks : dev[t] = d => ~Active(t))
            => sessions[d] = 0

\* C23: when send_frame has returned, the connection on which its last
\* frame write failed is no longer the pool entry of the device.
C23_FailedEntryDestroyed ==
    \A t \in Tasks :
        (pc[t] = "done" /\ result[t] = "SendFailed" /\ conn[t] # 0)
            => connections[dev[t]] # conn[t]

\* C24: no operation of the file-transfer engine does file I/O (chunk
\* write, checksum computation) while it is the holder of the
\* transfer-table lock.
C24_NoFileIoUnderLock ==
    [][/\ (\E written \in BOOLEAN : RcWrite(written))
             => table_lock # "receive_file_chunk"
       /\ HcChecksum => table_lock # "handle_complete"]_vars

\* C25: when both managers have finished a handshake flow (initiate_handshake,
\* handle_hello_secure, complete_handshake and finalize_handshake), their
\* sessions hold the same shared secret, the same message_key and the same
\* file_key, and in each session message_key differs from file_key.
C25_SameKeys ==
    Established =>
        /\ hsk.alice.session.shared_secret = hsk.bob.session.shared_secret
        /\ hsk.alice.session.message_key = hsk.bob.session.message_key
        /\ hsk.alice.session.file_key = hsk.bob.session.file_key
        /\ hsk.alice.session.message_key # hsk.alice.session.file_key
        /\ hsk.bob.session.message_key # hsk.bob.session.file_key

C25_Witness ==
    /\ Established
    /\ hsk.flows = MaxFlows
    /\ hsk.alice.session # NoSession
    /\ hsk.bob.session # NoSession

\* C26: an encrypted message that reaches the peer as it was sent decrypts,
\* with the peer's session of the same handshake, to the text that was
\* encrypted, the empty text included.
C26_RoundTrip ==
    (msg.stage = "received" /\ msg.tamper = <<"none", "none">>)
        => /\ msg.out.ok
           /\ msg.out.val = msg.sent
           /\ msg.events = {}

C26_Witness ==
    /\ msg.stage = "received"
    /\ msg.tamper = <<"none", "none">>
    /\ msg.from = "bob"
    /\ msg.sent.len = 0

\* C27: a message of which one byte of the payload, of the tag or of the
\* nonce was changed does not decrypt: the receiver gets the tag-mismatch
\* error and no text.
C27_TamperDetected ==
    (msg.stage = "received" /\ msg.tamper[2] = "flip")
        => /\ ~msg.out.ok
           /\ msg.out.val = NoString
           /\ msg.out.detail = "Decryption failed - authentication tag mismatch"

C27_Witness ==
    /\ msg.stage = "received"
    /\ msg.tamper = <<"iv", "flip">>
    /\ msg.sent.len > 0

\* C28: every message that fails to decrypt (base64 that does not decode
\* in iv, tag or payload, a nonce that is not 12 bytes, a tag that is not 16
\* bytes, a tag mismatch) ends in the same error outcome, the one of a tag
\* mismatch.
C28_UniformFailure ==
    (msg.stage = "received" /\ ~msg.out.ok)
        => /\ msg.out = ErrText("Decryption failed",
                                "Decryption failed - authentication tag mismatch")
           /\ msg.events = {"security-error"}

\* C29: a text longer than MAX_MESSAGE_SIZE is rejected by encrypt_message
\* with MessageTooLarge and no ciphertext is made for it; a text of at most
\* MAX_MESSAGE_SIZE is encrypted.
C29_MessageTooLarge ==
    msg.stage # "none" =>
        IF msg.sent.len > MAX_MESSAGE_SIZE
        THEN msg.stage = "rejected" /\ msg.encrypted = "MessageTooLarge"
        ELSE msg.stage \in {"sent", "received"} /\ msg.encrypted = ""

\* C30: however the file is split into reads on the encrypting side and the
\* ciphertext into reads on the decrypting side, the ciphertext is as long
\* as the file (empty for an empty file), both totals are that length, and
\* the decryptor of the same key and IV writes the file's bytes.
C30_ChunkingIndependent ==
    /\ strm.enc_total # -1 =>
          /\ Len(strm.wire) = Len(strm.data)
          /\ strm.enc_total = Len(strm.data)
    /\ strm.dec_total # -1 =>
          /\ strm.out = strm.data
          /\ strm.dec_total = Len(strm.data)

C30_Witness ==
    /\ strm.stage = "done"
    /\ strm.data = <<1, 0, 0>>
    /\ strm.enc_reads = 2
    /\ strm.dec_reads = 3
    /\ strm.wire # strm.data

Terminal == {"Completed", "Failed", "Cancelled"}

\* C36: Completed, Failed and Cancelled are terminal: no step of the
\* service (pause_transfer, cancel_transfer, handle_complete,
\* receive_file_request, accept_transfer, reject_transfer, the send task)
\* changes the status of a transfer that has one of them.
C36_TerminalIsFinal ==
    [][\A id \in TransferIds :
          transfers[id] \in Terminal => transfers'[id] = transfers[id]]_vars

\* start_transfer returns an error from its second part: no TCP client, a
\* status other than Pending, or no peer address
StartError(id, address) ==
    \/ ~tcp_client
    \/ transfers[id] # "Pending"
    \/ ~address

\* C37: a start_transfer call that returns an error leaves the status of
\* the transfer as it was and spawns no send task for it.
C37_FailedStartChangesNothing ==
    [][\A id \in TransferIds, address \in BOOLEAN :
          (/\ starting' # starting
           /\ StartError(id, address)
           /\ StartAdmit(id, address))
              => /\ transfers'[id] = transfers[id]
                 /\ task'[id] = task[id]]_vars

\* the file_size every FILE_REQUEST announces, and the length of the file
\* create_transfer finds: FileTransfer.size of every entry
AnnouncedSize == MaxFileSize

\* C38: on the sending and on the receiving side, the transferred count of
\* every transfer in the table is at most its size, whatever offset and
\* chunk_size the chunks carry.
C38_TransferredWithinSize ==
    \A id \in TransferIds :
        transfers[id] # "absent" => transferred[id] <= AnnouncedSize

\* C40: receive_file_request for a transfer_id that is in the table leaves
\* the entry as it was: status, transferred count and file_path.
C40_RequestKeepsExisting ==
    [][\A id \in TransferIds :
          (/\ transfers[id] # "absent"
           /\ ret'.op = "receive_file_request"
           /\ receive_file_request(id))
              => /\ transfers'[id] = transfers[id]
                 /\ transferred'[id] = transferred[id]
                 /\ file_path'[id] = file_path[id]]_vars

\* C33: every ENCRYPTED_MESSAGE frame the client has written on a
\* connection was encrypted under the session established on that
\* connection, also after send_frame evicted an entry and retried.
C33_EncryptedUnderOwnSession ==
    \A c \in Created : \A i \in 1..Len(conns[c].wire) :
        conns[c].wire[i].type = "EncryptedMessage"
            => /\ conns[c].session # 0
               /\ conns[c].wire[i].key = conns[c].session

\* the answer of the dialled peer that accepts the handshake
Accepting(r, d) ==
    /\ r.type = "HelloResponse"
    /\ r.json
    /\ r.accepted
    /\ r.device_id = d

\* C35: when tasks dial the same peer concurrently, a handshake that
\* succeeds on a connection consumes the keypair generated for that
\* connection, and a handshake that the peer accepts on an open connection
\* does not fail.
C35_OwnKeypair ==
    [][\A t \in Tasks :
          (pc[t] = "hs_read" /\ pc'[t] = "gc_insert")
              => /\ conns'[conn[t]].hs = "ok"
                    => conns'[conn[t]].session = conn[t]
                 /\ \A r \in Responses :
                      (/\ Accepting(r, dev[t])
                       /\ conns[conn[t]].open
                       /\ HsRead(t, r))
                          => conns'[conn[t]].hs = "ok"]_vars

\* C39: once the handshake on a connection has ended, in success or in any
\* failure, the keypair that initiate_handshake stored for it is no longer
\* pending for the dialled peer.
C39_NoPendingAfterHandshake ==
    \A c \in Created :
        conns[c].hs \notin {"none", "sent"}
            => pending_keypairs[conns[c].device_id] # c

\* where the handler is after the frame it handled last: a FILE_DATA frame
\* read by the session loop and any other frame read by the stream loop
\* have ended the connection; the stream loop runs only below file_size
FileDataWindow ==
    /\ (server.last.in = "encrypted" /\ server.last.frame.type = "FileData")
          => server.state = "closed" /\ server.exit = "protocol_violation"
    /\ (server.last.in = "file_stream" /\ server.last.frame.type # "FileData")
          => server.state = "closed" /\ server.exit = "protocol_violation"
    /\ server.state = "file_stream"
          => server.total_received < server.file_size
    /\ (/\ server.last.in = "file_stream"
        /\ server.last.frame.type = "FileData"
        /\ server.state # "closed")
          => /\ server.total_received >= server.last.frame.len
             /\ server.state = "encrypted"
                   <=> server.total_received >= server.file_size

AcceptedInSession(ty) ==
    encrypted_session_frame(SrvFrame(ty, TRUE, 0, "ok", "TEXT_MESSAGE", 0, 0),
                            TRUE).err # "protocol_violation"

\* C34: every frame the client has written after the handshake on a
\* connection with an established session has a type the server's session
\* loop accepts; the FILE_REQUEST, FILE_DATA and FILE_COMPLETE frames of the
\* file-transfer sender are among the frames written.
C34_SessionFramesAccepted ==
    \A c \in Created :
        conns[c].session # 0
            => \A i \in 2..Len(conns[c].wire) :
                  AcceptedInSession(conns[c].wire[i].type)

\* the bytes that are the discriminant of some message type
TypeSet == {as_u8(ty) : ty \in MessageType}

\* the length field of a stream that holds at least the four length bytes
DeclaredLength(s) == from_be_bytes(SubSeq(s, 1, 4))

\* C31: Frame codec.  Decoding the encoding of a frame, of any message type
\* of the closed set and any payload within the size limit, returns the same
\* message_type and payload; a header whose length field exceeds 100 MiB
\* makes decode fail after the four length bytes, the payload unread; a type
\* byte outside the set and a stream that ends before the frame is complete
\* make decode fail as well; a failed decode yields no frame.
C31_FrameCodec ==
    codec.op = "decoded" =>
        LET s == codec.stream
            r == codec.result
        IN  /\ \A ty \in MessageType, payload \in Payloads :
                  s = Frame_encode(Frame_new(ty, payload))
                     => /\ r.ok
                        /\ r.frame.message_type = ty
                        /\ r.frame.payload = payload
            /\ (Len(s) >= 4 /\ DeclaredLength(s) > MAX_PAYLOAD_SIZE)
                  => ~r.ok /\ r.consumed = 4
            /\ (Len(s) >= 5 /\ s[5] \notin TypeSet) => ~r.ok
            /\ (Len(s) < 4 \/ Len(s) < 5 + DeclaredLength(s)) => ~r.ok
            /\ ~r.ok => r.frame = NoDecoded

C31_Witness ==
    /\ codec.op = "decoded"
    /\ codec.result.ok
    /\ Len(codec.result.frame.payload) = MaxPayload
    /\ codec.stream = Frame_encode(codec.result.frame)

\* the other cases of C31: an oversized header with bytes behind it, a
\* type byte outside the set, a stream that ended inside the payload
C31_Oversized ==
    /\ codec.op = "decoded"
    /\ Len(codec.stream) > 5
    /\ DeclaredLength(codec.stream) > MAX_PAYLOAD_SIZE
    /\ codec.result.err = "Payload too large"

C31_UnknownType ==
    /\ codec.op = "decoded"
    /\ Len(codec.stream) >= 5
    /\ codec.stream[5] \notin TypeSet
    /\ codec.result.err = "Invalid message type"

C31_ShortRead ==
    /\ codec.op = "decoded"
    /\ Len(codec.stream) >= 5
    /\ codec.stream[5] \in TypeSet
    /\ codec.result.err = "UnexpectedEof"

====
